---- MODULE Spec2Model ----
(***************************************************************************)
(* A model of the BotPoly trading core: run_bot (src/bot/runner.py) with   *)
(* its four cooperative tasks, the RiskManager (src/bot/risk.py), the      *)
(* signal selector (src/bot/strategy.py), the paper/live Executor          *)
(* (src/bot/execution.py) and the two feeds (src/bot/feeds).               *)
(*                                                                         *)
(* Units.  Probabilities and prices are integers in half-cents: 200 is     *)
(* 1.0, 2 is 0.01.  Bids and asks are whole cents (even numbers), so that  *)
(* mid = (bid + ask) / 2 is exact.  Money is in whole dollars.  Time is an *)
(* integer clock, now, that the Clock action advances.                     *)
(***************************************************************************)
EXTENDS Integers, Sequences, FiniteSets, TLC

(* ---------------------------------------------------------------------- *)
(* Bounds of the model                                                     *)
(* ---------------------------------------------------------------------- *)
MaxTime == 2
MaxVersion == 1
MaxExposure == 50
MaxPnl == 30
MaxAttempt == 7
MaxHistory == 6
MaxSwitch == 2
MaxOrders == 4

(* ---------------------------------------------------------------------- *)
(* Settings (src/bot/config.py), in the model's units                      *)
(*                                                                         *)
(* Prices and money keep the defaults of load_settings (0.04, 0.03, 10,    *)
(* 30, 20, 300 bps).  The durations are scaled to the small clock and keep *)
(* the order of the defaults: cooldown (45 s) is shorter than the time     *)
(* stop (180 s); the fallback age (120 s) and the risk day (1 day) are one *)
(* clock step, so both expire inside MaxTime.  The windows of the          *)
(* probability model are scaled the same way: momentum (40) is shorter     *)
(* than volatility (60).                                                   *)
(* ---------------------------------------------------------------------- *)
One == 200
Cent == 2
edge_min == 8
max_spread == 6
order_size_usd == 10
max_position_usd == 30
daily_loss_limit_usd == 20
cooldown_seconds == 1
profit_take_bps == 300
time_stop_seconds == 2
market_discovery_fallback_seconds == 1
DaySeconds == 1
momentum_window == 2
vol_window == 3
UnreachableEdge == 9999 * One

\* Optional values (Python's None): the empty tuple, or <<x>> for a value x.
None == << >>
Some(x) == << x >>
Val(o) == o[1]

Max(a, b) == IF a >= b THEN a ELSE b
Min(a, b) == IF a <= b THEN a ELSE b
Abs(a) == IF a >= 0 THEN a ELSE 0 - a

(* ---------------------------------------------------------------------- *)
(* Values the environment can deliver                                      *)
(* ---------------------------------------------------------------------- *)
\* MarketDiscoveryResult: what a successful resolution can return.
Handles ==
    { [market_slug |-> "w1", up_token_id |-> "u1", down_token_id |-> "d1"],
      [market_slug |-> "w2", up_token_id |-> "u2", down_token_id |-> "d2"] }

Tokens == {h.up_token_id : h \in Handles} \cup {h.down_token_id : h \in Handles}

\* (bid, ask) pairs a book message can carry.
Books == { <<80, 84>>, <<120, 130>> }

\* Values the probability model can return on a long enough history.
PModelSet == { 60, 84, 100 }

(* ---------------------------------------------------------------------- *)
(* MarketQuote (src/bot/types.py)                                          *)
(* ---------------------------------------------------------------------- *)
\* The ts field is written and never read; it is left out.
MarketQuote(tok, bid, ask) == [token_id |-> tok, bid |-> bid, ask |-> ask]

\* mid: (bid + ask) / 2 if both are truthy (non-zero), else 0.
Mid(q) == IF q.bid # 0 /\ q.ask # 0 THEN (q.bid + q.ask) \div 2 ELSE 0

\* spread: max(ask - bid, 0).
Spread(q) == Max(q.ask - q.bid, 0)

(* ---------------------------------------------------------------------- *)
(* Signal selector (src/bot/strategy.py)                                   *)
(* ---------------------------------------------------------------------- *)
Signal(p_up_model, p_up_mkt, p_down_mkt, edge_up, edge_down, edge, decision, reason_code) ==
    [p_up_model |-> p_up_model, p_up_mkt |-> p_up_mkt, p_down_mkt |-> p_down_mkt,
     edge_up |-> edge_up, edge_down |-> edge_down, edge |-> edge,
     decision |-> decision, reason_code |-> reason_code]

\* choose_signal with the down tier tried before the up tier.
choose_signal_down_first(p_up_model, up_mid, emin, mspread, up_spread, down_spread) ==
    LET p_up_mkt == up_mid
        p_down_mkt == Max(One - p_up_mkt, 0)
        edge_up == p_up_model - p_up_mkt
        edge_down == (One - p_up_model) - p_down_mkt
    IN  IF up_spread > mspread \/ down_spread > mspread
        THEN Signal(p_up_model, p_up_mkt, p_down_mkt, edge_up, edge_down,
                    Max(edge_up, edge_down), "hold", "spread_too_wide")
        ELSE IF edge_down >= emin
        THEN Signal(p_up_model, p_up_mkt, p_down_mkt, edge_up, edge_down,
                    edge_down, "buy_down", "edge_down")
        ELSE IF edge_up >= emin
        THEN Signal(p_up_model, p_up_mkt, p_down_mkt, edge_up, edge_down,
                    edge_up, "buy_up", "edge_up")
        ELSE Signal(p_up_model, p_up_mkt, p_down_mkt, edge_up, edge_down,
                    Max(edge_up, edge_down), "hold", "edge_too_low")

\* choose_signal with the down edge taken against the up price.
choose_signal_down_against_up(p_up_model, up_mid, emin, mspread, up_spread, down_spread) ==
    LET p_up_mkt == up_mid
        p_down_mkt == Max(One - p_up_mkt, 0)
        edge_up == p_up_model - p_up_mkt
        edge_down == (One - p_up_model) - p_up_mkt
    IN  IF up_spread > mspread \/ down_spread > mspread
        THEN Signal(p_up_model, p_up_mkt, p_down_mkt, edge_up, edge_down,
                    Max(edge_up, edge_down), "hold", "spread_too_wide")
        ELSE IF edge_up >= emin
        THEN Signal(p_up_model, p_up_mkt, p_down_mkt, edge_up, edge_down,
                    edge_up, "buy_up", "edge_up")
        ELSE IF edge_down >= emin
        THEN Signal(p_up_model, p_up_mkt, p_down_mkt, edge_up, edge_down,
                    edge_down, "buy_down", "edge_down")
        ELSE Signal(p_up_model, p_up_mkt, p_down_mkt, edge_up, edge_down,
                    Max(edge_up, edge_down), "hold", "edge_too_low")

choose_signal(p_up_model, up_mid, emin, mspread, up_spread, down_spread) ==
    LET p_up_mkt == up_mid
        p_down_mkt == Max(One - p_up_mkt, 0)
        edge_up == p_up_model - p_up_mkt
        edge_down == (One - p_up_model) - p_down_mkt
    IN  IF up_spread > mspread \/ down_spread > mspread
        THEN Signal(p_up_model, p_up_mkt, p_down_mkt, edge_up, edge_down,
                    Max(edge_up, edge_down), "hold", "spread_too_wide")
        ELSE IF edge_up >= emin
        THEN Signal(p_up_model, p_up_mkt, p_down_mkt, edge_up, edge_down,
                    edge_up, "buy_up", "edge_up")
        ELSE IF edge_down >= emin
        THEN Signal(p_up_model, p_up_mkt, p_down_mkt, edge_up, edge_down,
                    edge_down, "buy_down", "edge_down")
        ELSE Signal(p_up_model, p_up_mkt, p_down_mkt, edge_up, edge_down,
                    Max(edge_up, edge_down), "hold", "edge_too_low")

(* ---------------------------------------------------------------------- *)
(* Probability model (src/bot/model.py).  The logistic score of a long     *)
(* enough history is an input x of the tick; a short history gives 0.5.    *)
(* ---------------------------------------------------------------------- *)
\* The length test of line 13 without its "+ 2".
MinHistory_no_margin == Max(momentum_window, vol_window)

\* Line 13: the shortest history the formula is applied to.
MinHistory == Max(momentum_window, vol_window) + 2

predict_up_probability(nprices, x) ==
    IF nprices < MinHistory THEN One \div 2 ELSE x

(* The formula of lines 16-22 in fixed point.  Prices are integers;         *)
(* returns, momentum, volatility and score are in units of 1/One, rounded  *)
(* down where the floating-point code rounds to nearest.  What is exact in *)
(* the code is exact here: a difference of equal prices is 0, the root of  *)
(* 0 is 0, and the logistic function of 0 is one half.                     *)

\* The result of a call: a value, or the exception it raised.
Ok(v) == [raised |-> FALSE, error |-> "", value |-> v]
Raise(e) == [raised |-> TRUE, error |-> e, value |-> 0]

\* Python's indexing of a sequence of length n: i counts from 0, a negative
\* i counts from the end, anything else is an IndexError.
PyInRange(n, i) == i >= 0 - n /\ i < n
PyAt(prices, i) == IF i >= 0 THEN prices[i + 1] ELSE prices[Len(prices) + i + 1]

\* math.sqrt on integers: the largest k with k * k <= n, by bisection.
RECURSIVE isqrt_between(_, _, _)
isqrt_between(n, lo, hi) ==
    IF hi - lo <= 1 THEN lo
    ELSE LET mid == (lo + hi) \div 2
         IN  IF mid * mid <= n THEN isqrt_between(n, mid, hi)
             ELSE isqrt_between(n, lo, mid)

isqrt(n) == isqrt_between(n, 0, 46341)

\* math.exp(z) raises OverflowError when z exceeds ln of the largest float,
\* 709.78; in units of 1/One.
ExpOverflow == 141956

\* 1 / (1 + exp(-score)) at score 0, 0.5, 1, ..., 5, in units of 1/One.
LogisticTable == << 100, 124, 146, 164, 176, 185, 191, 194, 196, 198, 199 >>

\* The logistic function for score >= 0, interpolated between the entries
\* of the table; above 5 it is within float rounding of 1 from 37 on.
logistic_nonneg(score) ==
    LET k == score \div (One \div 2)
    IN  IF k >= 10 THEN (IF score >= 37 * One THEN One ELSE One - 1)
        ELSE LogisticTable[k + 1]
               + ((LogisticTable[k + 2] - LogisticTable[k + 1]) * (score - k * (One \div 2)))
                     \div (One \div 2)

logistic(score) ==
    IF score >= 0 THEN logistic_nonneg(score) ELSE One - logistic_nonneg(0 - score)

RECURSIVE sum_squares(_, _, _)
sum_squares(f, lo, hi) ==
    IF lo > hi THEN 0 ELSE f[lo] * f[lo] + sum_squares(f, lo + 1, hi)

\* Lines 16-22: momentum over momentum_window, realized volatility over
\* vol_window, score, logistic function, clamp to [0.01, 0.99].
momentum_vol(prices) ==
    LET n == Len(prices)
        first == 0 - momentum_window
        lo == n - vol_window
        hi == n - 1
    IN  IF ~ PyInRange(n, 0 - 1) \/ ~ PyInRange(n, first)
        THEN Raise("IndexError")
        ELSE IF PyAt(prices, first) = 0
        THEN Raise("ZeroDivisionError")
        ELSE IF \E i \in lo..hi : ~ PyInRange(n, i) \/ ~ PyInRange(n, i - 1)
        THEN Raise("IndexError")
        ELSE IF \E i \in lo..hi : PyAt(prices, i - 1) = 0
        THEN Raise("ZeroDivisionError")
        ELSE LET momentum == ((PyAt(prices, 0 - 1) - PyAt(prices, first)) * One)
                                 \div PyAt(prices, first)
                 returns == [i \in lo..hi |->
                               ((PyAt(prices, i) - PyAt(prices, i - 1)) * One)
                                   \div PyAt(prices, i - 1)]
                 rv == isqrt(sum_squares(returns, lo, hi) \div vol_window)
                 score == (momentum * 180) - (rv * 20)
             IN  IF 0 - score > ExpOverflow
                 THEN Raise("OverflowError")
                 ELSE Ok(Min(Max(logistic(score), Cent), One - Cent))

(* ---------------------------------------------------------------------- *)
(* Risk manager (src/bot/risk.py).  A RiskManager value r carries its      *)
(* constructor arguments, its RiskState fields and day_start.              *)
(* ---------------------------------------------------------------------- *)
RiskManager(maxpos, losslimit, cooldown, t) ==
    [max_position_usd |-> maxpos, daily_loss_limit_usd |-> losslimit,
     cooldown_seconds |-> cooldown,
     exposure_usd |-> 0, realized_pnl_usd |-> 0, last_trade_ts |-> None,
     day_start |-> t]

\* reset_if_new_day that fires as soon as a full day has passed (>= for >).
reset_if_new_day_at_24h(r, t) ==
    IF t - r.day_start >= DaySeconds
    THEN [r EXCEPT !.realized_pnl_usd = 0, !.day_start = t]
    ELSE r

reset_if_new_day(r, t) ==
    IF t - r.day_start > DaySeconds
    THEN [r EXCEPT !.realized_pnl_usd = 0, !.day_start = t]
    ELSE r

\* can_open's checks with the exposure check moved in front of the loss check.
can_open_result_exposure_first(r, notional_usd, t) ==
    IF r.exposure_usd + notional_usd > r.max_position_usd
    THEN <<FALSE, "max_exposure_hit">>
    ELSE IF r.realized_pnl_usd <= 0 - Abs(r.daily_loss_limit_usd)
    THEN <<FALSE, "daily_loss_limit_hit">>
    ELSE IF r.last_trade_ts # None /\ t - Val(r.last_trade_ts) < r.cooldown_seconds
    THEN <<FALSE, "cooldown_active">>
    ELSE <<TRUE, "ok">>

\* can_open's checks with the cooldown check moved in front of the exposure
\* check.
can_open_result_cooldown_first(r, notional_usd, t) ==
    IF r.realized_pnl_usd <= 0 - Abs(r.daily_loss_limit_usd)
    THEN <<FALSE, "daily_loss_limit_hit">>
    ELSE IF r.last_trade_ts # None /\ t - Val(r.last_trade_ts) < r.cooldown_seconds
    THEN <<FALSE, "cooldown_active">>
    ELSE IF r.exposure_usd + notional_usd > r.max_position_usd
    THEN <<FALSE, "max_exposure_hit">>
    ELSE <<TRUE, "ok">>

\* can_open's checks without the exposure check.
can_open_result_without_exposure(r, notional_usd, t) ==
    IF r.realized_pnl_usd <= 0 - Abs(r.daily_loss_limit_usd)
    THEN <<FALSE, "daily_loss_limit_hit">>
    ELSE IF r.last_trade_ts # None /\ t - Val(r.last_trade_ts) < r.cooldown_seconds
    THEN <<FALSE, "cooldown_active">>
    ELSE <<TRUE, "ok">>

\* The (allowed, reason) pair can_open returns; r is the state after the reset.
can_open_result(r, notional_usd, t) ==
    IF r.realized_pnl_usd <= 0 - Abs(r.daily_loss_limit_usd)
    THEN <<FALSE, "daily_loss_limit_hit">>
    ELSE IF r.exposure_usd + notional_usd > r.max_position_usd
    THEN <<FALSE, "max_exposure_hit">>
    ELSE IF r.last_trade_ts # None /\ t - Val(r.last_trade_ts) < r.cooldown_seconds
    THEN <<FALSE, "cooldown_active">>
    ELSE <<TRUE, "ok">>

\* can_open: the state it leaves and the pair it returns.
can_open(r, notional_usd, t) ==
    LET r1 == reset_if_new_day(r, t)
    IN  [state |-> r1, ret |-> can_open_result(r1, notional_usd, t)]

on_open(r, notional_usd, t) ==
    [r EXCEPT !.exposure_usd = @ + notional_usd, !.last_trade_ts = Some(t)]

\* on_close without the floor at zero.
on_close_unfloored(r, notional_usd, pnl_usd, t) ==
    [r EXCEPT !.exposure_usd = @ - notional_usd,
              !.realized_pnl_usd = @ + pnl_usd,
              !.last_trade_ts = Some(t)]

\* on_close that leaves last_trade_ts as it was.
on_close_keeps_timestamp(r, notional_usd, pnl_usd, t) ==
    [r EXCEPT !.exposure_usd = Max(@ - notional_usd, 0),
              !.realized_pnl_usd = @ + pnl_usd]

on_close(r, notional_usd, pnl_usd, t) ==
    [r EXCEPT !.exposure_usd = Max(@ - notional_usd, 0),
              !.realized_pnl_usd = @ + pnl_usd,
              !.last_trade_ts = Some(t)]

(* ---------------------------------------------------------------------- *)
(* Executor.place_limit (src/bot/execution.py).  kw is the name of the     *)
(* keyword argument the caller passes and kwval its value; the signature   *)
(* accepts only best_ask, any other keyword raises TypeError at the call.  *)
(* ---------------------------------------------------------------------- *)
place_limit(mode, token_id, side, price, size, kw, kwval) ==
    IF kw # "best_ask"
    THEN [raised |-> TRUE, status |-> "TypeError", price |-> price, size |-> size]
    ELSE IF mode = "paper"
    THEN [raised |-> FALSE,
          status |-> IF side = "buy" /\ kwval # None /\ price >= Val(kwval)
                     THEN "filled" ELSE "open",
          price |-> price, size |-> size]
    ELSE [raised |-> FALSE, status |-> "submitted", price |-> price, size |-> size]

(* ---------------------------------------------------------------------- *)
(* State of run_bot (src/bot/runner.py)                                    *)
(* ---------------------------------------------------------------------- *)
VARIABLES
    settings,           \* Settings: mode, allow_cross_window_positions
    now,                \* the wall clock
    binance,            \* BinanceFeed: latest_price
    poly,               \* PolymarketMarketFeed: token ids, quotes, _version
    active_market,      \* the handle the decision loop trades against
    last_valid_market,  \* the last successful resolution
    last_market_ok,     \* when it was obtained
    position,           \* None or Some(Position)
    risk,               \* the RiskManager
    rot,                \* rotation_loop: sleeping or crashed, and its last log event
    dec,                \* decision_loop: where it is suspended, its locals
    main,               \* run_bot itself: "running" or "stopped"
    db,                 \* Storage: rows of the positions table still open
    tick,               \* what the current (or last) tick did
    h                   \* the last call made by a test harness, if any

vars == << settings, now, binance, poly, active_market, last_valid_market,
           last_market_ok, position, risk, rot, dec, main, db, tick, h >>

\* decision_loop suspended in asyncio.sleep, holding no tick locals.  Of the
\* tick's locals dec keeps those the loop body reads after an await.
DecIdle ==
    [pc |-> "sleep", up_quote |-> None, down_quote |-> None, decision |-> "",
     can_open |-> FALSE, reason |-> "", risk_reason |-> "", buy |-> None]

\* No tick has run yet.
NoTick ==
    [snapshots |-> FALSE, had_position |-> FALSE,
     decision |-> "", reason |-> "", risk_queried |-> FALSE, can_open |-> FALSE,
     exit_reason |-> "", events |-> << >>, orders |-> << >>]

\* The state run_bot is in when its four tasks have been created
\* (runner.py lines 42-66 and 304-307), the initial discovery having
\* returned the handle d and MAX_POSITION_USD being maxpos.
InitRunWith(d, mode, cross, maxpos) ==
    /\ settings = [mode |-> mode, allow_cross_window_positions |-> cross]
    /\ now = 0
    /\ binance = [latest_price |-> None]
    /\ poly = [up_token_id |-> d.up_token_id, down_token_id |-> d.down_token_id,
               up_quote |-> None, down_quote |-> None, version |-> 0]
    /\ active_market = d
    /\ last_valid_market = d
    /\ last_market_ok = 0
    /\ position = None
    /\ risk = RiskManager(maxpos, daily_loss_limit_usd, cooldown_seconds, 0)
    /\ rot = [pc |-> "sleep", log |-> ""]
    /\ dec = DecIdle
    /\ main = "running"
    /\ db = [open_positions |-> 0]
    /\ tick = NoTick
    /\ h = None

\* The same with the default limit.
InitRun(d, mode, cross) == InitRunWith(d, mode, cross, max_position_usd)

FirstHandle == CHOOSE d \in Handles : d.up_token_id = "u1"

Init ==
    \E mode \in {"paper", "live"}, cross \in BOOLEAN :
        InitRun(FirstHandle, mode, cross)

(* ---------------------------------------------------------------------- *)
(* The feeds                                                               *)
(* ---------------------------------------------------------------------- *)
Prices == { 1 }

\* BinanceFeed.run, one trade message (binance.py lines 27-32).
BinanceTrade(price) ==
    /\ main = "running"
    /\ binance' = [latest_price |-> Some(price)]
    /\ UNCHANGED << settings, now, poly, active_market, last_valid_market,
                    last_market_ok, position, risk, rot, dec, main, db, tick, h >>

\* PolymarketMarketFeed.switch_market (polymarket_ws.py lines 33-38).
switch_market(f, up_token_id, down_token_id) ==
    [f EXCEPT !.up_token_id = up_token_id, !.down_token_id = down_token_id,
              !.up_quote = None, !.down_quote = None, !.version = @ + 1]

\* A quote store that files a quote by its side without comparing its token
\* with the feed's current ids.
store_quote_by_side(f, quote) ==
    IF quote.token_id \in { d.up_token_id : d \in Handles }
    THEN [f EXCEPT !.up_quote = Some(quote)]
    ELSE [f EXCEPT !.down_quote = Some(quote)]

\* The quote store of PolymarketMarketFeed.run (polymarket_ws.py lines 84-88).
store_quote(f, quote) ==
    IF quote.token_id = f.up_token_id THEN [f EXCEPT !.up_quote = Some(quote)]
    ELSE IF quote.token_id = f.down_token_id THEN [f EXCEPT !.down_quote = Some(quote)]
    ELSE f

\* PolymarketMarketFeed.run, one book message carrying one quote.
PolyMessage(tok, book) ==
    /\ main = "running"
    /\ poly' = store_quote(poly, MarketQuote(tok, book[1], book[2]))
    /\ UNCHANGED << settings, now, binance, active_market, last_valid_market,
                    last_market_ok, position, risk, rot, dec, main, db, tick, h >>

\* Time passes.
Clock ==
    /\ now < MaxTime
    /\ now' = now + 1
    /\ UNCHANGED << settings, binance, poly, active_market, last_valid_market,
                    last_market_ok, position, risk, rot, dec, main, db, tick, h >>

(* ---------------------------------------------------------------------- *)
(* rotation_loop (runner.py lines 68-97).  One action is one iteration:    *)
(* prev is read at line 72, before the discovery request is awaited, and   *)
(* is still the active handle when the request returns, because this task  *)
(* is the only one that assigns active_market.                             *)
(* ---------------------------------------------------------------------- *)
handle_differs(new_market, prev) ==
    LET token_changed == \/ new_market.up_token_id # prev.up_token_id
                         \/ new_market.down_token_id # prev.down_token_id
    IN  new_market.market_slug # prev.market_slug \/ token_changed

\* RotSuccess that swaps the active handle without telling the quote feed
\* (line 81 missing, or run after an await at which other tasks are scheduled).
RotSuccess_without_switch(new_market) ==
    /\ main = "running"
    /\ rot.pc = "sleep"
    /\ LET prev == active_market
       IN  /\ handle_differs(new_market, prev) => poly.version < MaxVersion
           /\ last_valid_market' = new_market
           /\ last_market_ok' = now
           /\ IF handle_differs(new_market, prev)
              THEN /\ active_market' = new_market
                   /\ rot' = [rot EXCEPT !.log = "market_rotated"]
              ELSE UNCHANGED << active_market, rot >>
    /\ UNCHANGED << settings, now, binance, poly, position, risk, dec, main, db, tick, h >>

\* RotSuccess that also empties the position slot when it swaps the market.
RotSuccess_drops_position(new_market) ==
    /\ main = "running"
    /\ rot.pc = "sleep"
    /\ LET prev == active_market
       IN  /\ handle_differs(new_market, prev) => poly.version < MaxVersion
           /\ last_valid_market' = new_market
           /\ last_market_ok' = now
           /\ IF handle_differs(new_market, prev)
              THEN /\ active_market' = new_market
                   /\ poly' = switch_market(poly, new_market.up_token_id,
                                            new_market.down_token_id)
                   /\ rot' = [rot EXCEPT !.log = "market_rotated"]
                   /\ position' = None
              ELSE UNCHANGED << active_market, poly, rot, position >>
    /\ UNCHANGED << settings, now, binance, risk, dec, main, db, tick, h >>

\* Discovery returned new_market (lines 72-90).
RotSuccess(new_market) ==
    /\ main = "running"
    /\ rot.pc = "sleep"
    /\ LET prev == active_market
       IN  /\ handle_differs(new_market, prev) => poly.version < MaxVersion
           /\ last_valid_market' = new_market
           /\ last_market_ok' = now
           /\ IF handle_differs(new_market, prev)
              THEN /\ active_market' = new_market
                   /\ poly' = switch_market(poly, new_market.up_token_id,
                                            new_market.down_token_id)
                   /\ rot' = [rot EXCEPT !.log = "market_rotated"]
              ELSE UNCHANGED << active_market, poly, rot >>
    /\ UNCHANGED << settings, now, binance, position, risk, dec, main, db, tick, h >>

\* RotFail that falls back to the handle found at startup instead of
\* last_valid_market.
RotFail_to_startup_handle ==
    /\ main = "running"
    /\ rot.pc = "sleep"
    /\ LET age == now - last_market_ok
       IN  IF age <= market_discovery_fallback_seconds
           THEN /\ active_market' = FirstHandle
                /\ rot' = [rot EXCEPT !.log = "market_discovery_failed_using_fallback"]
           ELSE /\ UNCHANGED active_market
                /\ rot' = [rot EXCEPT !.log = "market_discovery_failed_expired_fallback"]
    /\ UNCHANGED << settings, now, binance, poly, last_valid_market, last_market_ok,
                    position, risk, dec, main, db, tick, h >>

\* Discovery returned None (lines 72-74 and 91-97).
RotFail ==
    /\ main = "running"
    /\ rot.pc = "sleep"
    /\ LET age == now - last_market_ok
       IN  IF age <= market_discovery_fallback_seconds
           THEN /\ active_market' = last_valid_market
                /\ rot' = [rot EXCEPT !.log = "market_discovery_failed_using_fallback"]
           ELSE /\ UNCHANGED active_market
                /\ rot' = [rot EXCEPT !.log = "market_discovery_failed_expired_fallback"]
    /\ UNCHANGED << settings, now, binance, poly, last_valid_market, last_market_ok,
                    position, risk, dec, main, db, tick, h >>

\* Discovery raised (discovery.py lines 147-149 raise on an HTTP error and
\* nothing in rotation_loop catches it): the task ends.
RotRaise ==
    /\ main = "running"
    /\ rot.pc = "sleep"
    /\ rot' = [rot EXCEPT !.pc = "crashed"]
    /\ UNCHANGED << settings, now, binance, poly, active_market, last_valid_market,
                    last_market_ok, position, risk, dec, main, db, tick, h >>

(* ---------------------------------------------------------------------- *)
(* decision_loop (runner.py lines 99-289).  Each action runs the loop body *)
(* from one await at which another task can be scheduled to the next.      *)
(* ---------------------------------------------------------------------- *)
Order(slug, tok, side, res, reason) ==
    [market_slug |-> slug, token_id |-> tok, side |-> side, price |-> res.price,
     size |-> res.size, status |-> res.status, reason |-> reason]

\* A quantity is the exact fraction num / den (dollars over a price).
Qty(usd, price) == [num |-> usd * One, den |-> price]

\* Line 249 without the floor of the price at 0.01.
order_qty_unfloored(limit_price) == Qty(order_size_usd, limit_price)

\* Line 249: the quantity of an entry order at limit_price.
order_qty(limit_price) == Qty(order_size_usd, Max(limit_price, Cent))

\* price * qty in dollars.
Notional(price, qty) == (price * qty.num) \div (qty.den * One)

Position(slug, tok, qty, entry_price, entry_ts) ==
    [market_slug |-> slug, token_id |-> tok, qty |-> qty,
     entry_price |-> entry_price, entry_ts |-> entry_ts]

\* TickNoOrderbook with the risk manager queried before the snapshots are
\* looked at.
TickNoOrderbook_queries_risk ==
    /\ main = "running"
    /\ dec.pc = "sleep"
    /\ \/ binance.latest_price = None
       \/ (binance.latest_price # None /\ Val(binance.latest_price) = 0)
       \/ poly.up_quote = None
       \/ poly.down_quote = None
    /\ risk' = can_open(risk, order_size_usd, now).state
    /\ tick' = [NoTick EXCEPT !.had_position = (position # None),
                              !.decision = "hold", !.reason = "no_orderbook",
                              !.risk_queried = TRUE]
    /\ dec' = DecIdle
    /\ UNCHANGED << settings, now, binance, poly, active_market, last_valid_market,
                    last_market_ok, position, rot, main, db, h >>

\* Lines 103-141: a snapshot is absent; the tick is recorded as no_orderbook.
TickNoOrderbook ==
    /\ main = "running"
    /\ dec.pc = "sleep"
    /\ \/ binance.latest_price = None
       \/ (binance.latest_price # None /\ Val(binance.latest_price) = 0)
       \/ poly.up_quote = None
       \/ poly.down_quote = None
    /\ tick' = [NoTick EXCEPT !.had_position = (position # None),
                              !.decision = "hold", !.reason = "no_orderbook"]
    /\ dec' = DecIdle
    /\ UNCHANGED << settings, now, binance, poly, active_market, last_valid_market,
                    last_market_ok, position, risk, rot, main, db, h >>

\* TickStart with the override of lines 159-161 left out.
TickStart_without_override(nprices, x) ==
    /\ main = "running"
    /\ dec.pc = "sleep"
    /\ binance.latest_price # None
    /\ Val(binance.latest_price) # 0
    /\ poly.up_quote # None
    /\ poly.down_quote # None
    /\ LET up_quote == Val(poly.up_quote)
           down_quote == Val(poly.down_quote)
           p_model == predict_up_probability(nprices, x)
           signal0 == choose_signal(p_model, Mid(up_quote), edge_min, max_spread,
                                    Spread(up_quote), Spread(down_quote))
           override == FALSE
           signal == IF override
                     THEN choose_signal(p_model, Mid(up_quote), UnreachableEdge, max_spread,
                                        Spread(up_quote), Spread(down_quote))
                     ELSE signal0
           reason0 == IF override THEN "position_open_old_window" ELSE signal0.reason_code
           co == can_open(risk, order_size_usd, now)
           reason == IF signal.decision # "hold" /\ ~co.ret[1] THEN co.ret[2] ELSE reason0
       IN  /\ risk' = co.state
           /\ dec' = [DecIdle EXCEPT !.pc = "ticked",
                                     !.up_quote = Some(up_quote),
                                     !.down_quote = Some(down_quote),
                                     !.decision = signal.decision,
                                     !.can_open = co.ret[1],
                                     !.reason = reason,
                                     !.risk_reason = co.ret[2]]
           /\ tick' = [NoTick EXCEPT !.snapshots = TRUE,
                                     !.had_position = (position # None),
                                     !.decision = signal.decision,
                                     !.reason = reason,
                                     !.risk_queried = TRUE,
                                     !.can_open = co.ret[1]]
    /\ UNCHANGED << settings, now, binance, poly, active_market, last_valid_market,
                    last_market_ok, position, rot, main, db, h >>

\* Lines 143-165: the signal of the tick after the override, the reason to
\* record, and the risk manager's answer.  nprices is the length of
\* binance.prices when the tick reads it, and x what the probability model
\* makes of a long enough history.
tick_signal(nprices, x) ==
    LET up_quote == Val(poly.up_quote)
        down_quote == Val(poly.down_quote)
        p_model == predict_up_probability(nprices, x)
        signal0 == choose_signal(p_model, Mid(up_quote), edge_min, max_spread,
                                 Spread(up_quote), Spread(down_quote))
        override == /\ signal0.decision # "hold"
                    /\ position # None
                    /\ ~settings.allow_cross_window_positions
        signal == IF override
                  THEN choose_signal(p_model, Mid(up_quote), UnreachableEdge, max_spread,
                                     Spread(up_quote), Spread(down_quote))
                  ELSE signal0
        reason0 == IF override THEN "position_open_old_window" ELSE signal0.reason_code
        co == can_open(risk, order_size_usd, now)
        reason == IF signal.decision # "hold" /\ ~co.ret[1] THEN co.ret[2] ELSE reason0
    IN  [signal |-> signal, reason |-> reason, co |-> co]

\* Lines 103-181: all snapshots present; signal, override, risk gate, and the
\* tick record.
TickStartBody(nprices, x) ==
    /\ main = "running"
    /\ dec.pc = "sleep"
    /\ binance.latest_price # None
    /\ Val(binance.latest_price) # 0
    /\ poly.up_quote # None
    /\ poly.down_quote # None
    /\ \E o \in { tick_signal(nprices, x) } :
           /\ risk' = o.co.state
           /\ dec' = [DecIdle EXCEPT !.pc = "ticked",
                                     !.up_quote = poly.up_quote,
                                     !.down_quote = poly.down_quote,
                                     !.decision = o.signal.decision,
                                     !.can_open = o.co.ret[1],
                                     !.reason = o.reason,
                                     !.risk_reason = o.co.ret[2]]
           /\ tick' = [NoTick EXCEPT !.snapshots = TRUE,
                                     !.had_position = (position # None),
                                     !.decision = o.signal.decision,
                                     !.reason = o.reason,
                                     !.risk_queried = TRUE,
                                     !.can_open = o.co.ret[1]]
    /\ UNCHANGED << settings, now, binance, poly, active_market, last_valid_market,
                    last_market_ok, position, rot, main, db >>

TickStart(nprices, x) ==
    /\ TickStartBody(nprices, x)
    /\ UNCHANGED h

\* exit_trigger with the time stop tested before the profit target.
exit_trigger_time_first(pos, quote, t) ==
    LET elapsed == t - pos.entry_ts
    IN  IF elapsed >= time_stop_seconds THEN "time_stop"
        ELSE IF Mid(quote) * 10000 >= pos.entry_price * (10000 + profit_take_bps)
        THEN "profit_take"
        ELSE ""

\* Lines 191-197: the exit trigger of position pos against quote, or "".
exit_trigger(pos, quote, t) ==
    LET elapsed == t - pos.entry_ts
    IN  IF Mid(quote) * 10000 >= pos.entry_price * (10000 + profit_take_bps)
        THEN "profit_take"
        ELSE IF elapsed >= time_stop_seconds THEN "time_stop"
        ELSE ""

\* Lines 184-189: the snapshot quote of the position's token under the
\* handle that is active now, or None when the token is of neither side.
exit_quote(pos, active, up_quote, down_quote) ==
    IF pos.token_id = active.up_token_id THEN up_quote
    ELSE IF pos.token_id = active.down_token_id THEN down_quote
    ELSE None

\* Lines 183-236: a position is open; exit check, sell order, close.
ExitCheck ==
    /\ main = "running"
    /\ dec.pc = "ticked"
    /\ position # None
    /\ LET pos == Val(position)
           q == exit_quote(pos, active_market, dec.up_quote, dec.down_quote)
       IN  IF q = None
           THEN /\ dec' = DecIdle
                /\ UNCHANGED << tick, risk, position, db >>
           ELSE LET quote == Val(q)
                    exit_reason == exit_trigger(pos, quote, now)
                    sell == place_limit(settings.mode, pos.token_id, "sell", quote.bid,
                                        pos.qty, "best_bid", Some(quote.bid))
                    pnl == ((sell.price - pos.entry_price) * pos.qty.num)
                               \div (pos.qty.den * One)
                IN  IF exit_reason = ""
                    THEN /\ dec' = DecIdle
                         /\ tick' = [tick EXCEPT !.events = Append(@, "exit_eval")]
                         /\ UNCHANGED << risk, position, db >>
                    ELSE IF sell.raised
                    THEN /\ dec' = [dec EXCEPT !.pc = "crashed"]
                         /\ tick' = [tick EXCEPT !.events = Append(@, "exit_eval"),
                                                 !.exit_reason = exit_reason]
                         /\ UNCHANGED << risk, position, db >>
                    ELSE IF sell.status = "filled"
                    THEN /\ risk' = on_close(risk, Notional(pos.entry_price, pos.qty), pnl, now)
                         /\ position' = None
                         /\ db' = [db EXCEPT !.open_positions =
                                       IF @ > 0 THEN @ - 1 ELSE @]
                         /\ dec' = DecIdle
                         /\ tick' = [tick EXCEPT
                               !.events = @ \o << "exit_eval", "sell", "close" >>,
                               !.exit_reason = exit_reason,
                               !.orders = Append(@, Order(pos.market_slug, pos.token_id,
                                                          "sell", sell, exit_reason))]
                    ELSE /\ dec' = DecIdle
                         /\ tick' = [tick EXCEPT
                               !.events = @ \o << "exit_eval", "sell" >>,
                               !.exit_reason = exit_reason,
                               !.orders = Append(@, Order(pos.market_slug, pos.token_id,
                                                          "sell", sell, exit_reason))]
                         /\ UNCHANGED << risk, position, db >>
    /\ UNCHANGED << settings, now, binance, poly, active_market, last_valid_market,
                    last_market_ok, rot, main, h >>

\* Lines 238-244: no position; the decision is hold or the risk gate blocks.
EntrySkip ==
    /\ main = "running"
    /\ dec.pc = "ticked"
    /\ position = None
    /\ dec.decision = "hold" \/ ~dec.can_open
    /\ dec' = DecIdle
    /\ UNCHANGED << settings, now, binance, poly, active_market, last_valid_market,
                    last_market_ok, position, risk, rot, main, db, tick, h >>

\* Lines 246-267: the entry order is built from the active handle and the
\* snapshot quote, submitted, and recorded.
EntrySubmitCore ==
    /\ main = "running"
    /\ dec.pc = "ticked"
    /\ dec.decision # "hold"
    /\ dec.can_open
    /\ LET up == dec.decision = "buy_up"
           buy_token_id == IF up THEN active_market.up_token_id
                           ELSE active_market.down_token_id
           quote == IF up THEN Val(dec.up_quote) ELSE Val(dec.down_quote)
           limit_price == quote.ask
           qty == order_qty(limit_price)
           result == place_limit(settings.mode, buy_token_id, "buy", limit_price, qty,
                                 "best_ask", Some(quote.ask))
       IN  /\ dec' = [dec EXCEPT !.pc = "buy_placed",
                                 !.buy = Some([token_id |-> buy_token_id,
                                               limit_price |-> limit_price,
                                               qty |-> qty,
                                               status |-> result.status])]
           /\ tick' = [tick EXCEPT
                 !.events = Append(@, "buy"),
                 !.orders = Append(@, Order(active_market.market_slug, buy_token_id,
                                            "buy", result, dec.reason))]
    /\ UNCHANGED << settings, now, binance, poly, active_market, last_valid_market,
                    last_market_ok, position, risk, rot, main, db >>

EntrySubmitBody ==
    /\ EntrySubmitCore
    /\ UNCHANGED h

\* EntrySubmit reached also with a position open (the "continue" of line 236
\* missing).
EntrySubmit_with_position == EntrySubmitBody

\* The entry is reached only past the "if position: ... continue" block of
\* lines 183-236, that is, with no position open.
EntrySubmit ==
    /\ position = None
    /\ EntrySubmitBody

\* Lines 268-289: after the order record is stored; a filled entry opens
\* the position.  opened is the test of line 268 and after is the loop's
\* state when the body is done.
EntrySettleBody(opened, after) ==
    /\ main = "running"
    /\ dec.pc = "buy_placed"
    /\ LET buy == Val(dec.buy)
       IN  IF opened
           THEN /\ risk' = on_open(risk, order_size_usd, now)
                /\ position' = Some(Position(active_market.market_slug, buy.token_id,
                                             buy.qty, buy.limit_price, now))
                /\ db' = [db EXCEPT !.open_positions = @ + 1]
                /\ tick' = [tick EXCEPT !.events = Append(@, "open")]
           ELSE UNCHANGED << risk, position, db, tick >>
    /\ dec' = after
    /\ UNCHANGED << settings, now, binance, poly, active_market, last_valid_market,
                    last_market_ok, rot, main, h >>

IsFilled(status) == status = "filled"

\* EntrySettle that opens the position whatever the order's status.
EntrySettle_any_status == EntrySettleBody(TRUE, DecIdle)

\* EntrySettle after which the same tick goes on to the exit check (the entry
\* block placed before the exit block).
EntrySettle_then_exit ==
    EntrySettleBody(IsFilled(Val(dec.buy).status), [dec EXCEPT !.pc = "ticked", !.buy = None])

\* EntrySettle that retries an entry order that was not filled: the tick goes
\* back to submit the order once more.
EntrySettle_retry ==
    EntrySettleBody(IsFilled(Val(dec.buy).status),
                    IF IsFilled(Val(dec.buy).status) \/ Len(tick.orders) >= 2
                    THEN DecIdle ELSE [dec EXCEPT !.pc = "ticked", !.buy = None])

EntrySettle == EntrySettleBody(IsFilled(Val(dec.buy).status), DecIdle)

(* ---------------------------------------------------------------------- *)
(* run_bot's shutdown (runner.py lines 315-325): every task is cancelled   *)
(* where it is suspended.                                                  *)
(* ---------------------------------------------------------------------- *)
\* Shutdown that force-closes an open position.
Shutdown_force_close ==
    /\ main = "running"
    /\ main' = "stopped"
    /\ position' = None
    /\ UNCHANGED << settings, now, binance, poly, active_market, last_valid_market,
                    last_market_ok, risk, rot, dec, db, tick, h >>

Shutdown ==
    /\ main = "running"
    /\ main' = "stopped"
    /\ UNCHANGED << settings, now, binance, poly, active_market, last_valid_market,
                    last_market_ok, position, risk, rot, dec, db, tick, h >>

Next ==
    \/ \E price \in Prices : BinanceTrade(price)
    \/ \E tok \in Tokens, book \in Books : PolyMessage(tok, book)
    \/ Clock
    \/ \E new_market \in Handles : RotSuccess(new_market)
    \/ RotFail
    \/ RotRaise
    \/ TickNoOrderbook
    \/ \E nprices \in {1, MinHistory}, x \in PModelSet : TickStart(nprices, x)
    \/ ExitCheck
    \/ EntrySkip
    \/ EntrySubmit
    \/ EntrySettle
    \/ Shutdown

Spec == Init /\ [][Next]_vars

(* ---------------------------------------------------------------------- *)
(* The RiskManager on its own: a caller makes any sequence of can_open,    *)
(* on_open and on_close calls on one manager while time passes.  h records *)
(* the last call: its arguments, the fields it found, what it returned.    *)
(* ---------------------------------------------------------------------- *)
runvars == << settings, binance, poly, active_market, last_valid_market,
              last_market_ok, position, rot, dec, main, db, tick >>

\* No bot is running: the variables of run_bot are parked.
NoRun ==
    /\ settings = [mode |-> "paper", allow_cross_window_positions |-> FALSE]
    /\ binance = [latest_price |-> None]
    /\ poly = [up_token_id |-> FirstHandle.up_token_id,
               down_token_id |-> FirstHandle.down_token_id,
               up_quote |-> None, down_quote |-> None, version |-> 0]
    /\ active_market = FirstHandle
    /\ last_valid_market = FirstHandle
    /\ last_market_ok = 0
    /\ position = None
    /\ rot = [pc |-> "sleep", log |-> ""]
    /\ dec = DecIdle
    /\ main = "harness"
    /\ db = [open_positions |-> 0]
    /\ tick = NoTick

Notionals == { 0, 10, 25 }
Pnls == { 0 - 15, 0, 5 }
LossLimits == { 20, 0 - 20 }

Call(op, r, t, notional_usd, pnl_usd, ret) ==
    [op |-> op, t |-> t, notional_usd |-> notional_usd, pnl_usd |-> pnl_usd,
     exposure_usd |-> r.exposure_usd, realized_pnl_usd |-> r.realized_pnl_usd,
     last_trade_ts |-> r.last_trade_ts, day_start |-> r.day_start, ret |-> ret]

RiskInit ==
    /\ NoRun
    /\ now = 0
    /\ \E losslimit \in LossLimits :
          risk = RiskManager(max_position_usd, losslimit, cooldown_seconds, 0)
    /\ h = None

CallCanOpen(notional_usd) ==
    /\ main = "harness"
    /\ LET co == can_open(risk, notional_usd, now)
       IN  /\ risk' = co.state
           /\ h' = Some(Call("can_open", risk, now, notional_usd, 0, co.ret))
    /\ UNCHANGED << now, runvars >>

CallOnOpen(notional_usd) ==
    /\ main = "harness"
    /\ risk.exposure_usd + notional_usd <= MaxExposure
    /\ risk' = on_open(risk, notional_usd, now)
    /\ h' = Some(Call("on_open", risk, now, notional_usd, 0, << >>))
    /\ UNCHANGED << now, runvars >>

CallOnClose(notional_usd, pnl_usd) ==
    /\ main = "harness"
    /\ Abs(risk.realized_pnl_usd + pnl_usd) <= MaxPnl
    /\ risk' = on_close(risk, notional_usd, pnl_usd, now)
    /\ h' = Some(Call("on_close", risk, now, notional_usd, pnl_usd, << >>))
    /\ UNCHANGED << now, runvars >>

RiskNext ==
    \/ \E n \in Notionals : CallCanOpen(n)
    \/ \E n \in Notionals : CallOnOpen(n)
    \/ \E n \in Notionals, pnl \in Pnls : CallOnClose(n, pnl)
    \/ Clock

RiskSpec == RiskInit /\ [][RiskNext]_vars

(* ---------------------------------------------------------------------- *)
(* choose_signal on its own: the arguments are drawn, then it is applied.  *)
(* ---------------------------------------------------------------------- *)
Probabilities == { 0, 60, 100, 140, 200 }
Mids == { 0, 82, 100, 125, 240 }
EdgeMins == { 0, edge_min, UnreachableEdge }
Spreads == { 0, max_spread, max_spread + 1 }

SignalInit ==
    /\ NoRun
    /\ now = 0
    /\ risk = RiskManager(max_position_usd, daily_loss_limit_usd, cooldown_seconds, 0)
    /\ \E p \in Probabilities, m \in Mids, e \in EdgeMins, us \in Spreads, ds \in Spreads :
          h = Some([op |-> "choose_signal", p_up_model |-> p, up_mid |-> m, edge_min |-> e,
                    max_spread |-> max_spread, up_spread |-> us, down_spread |-> ds,
                    ret |-> << >>])

CallChooseSignal ==
    /\ main = "harness"
    /\ h # None
    /\ Val(h).op = "choose_signal"
    /\ LET a == Val(h)
       IN  h' = Some([a EXCEPT !.ret = Some(choose_signal(a.p_up_model, a.up_mid, a.edge_min,
                                                          a.max_spread, a.up_spread,
                                                          a.down_spread))])
    /\ UNCHANGED << now, risk, runvars >>

SignalNext == CallChooseSignal

SignalSpec == SignalInit /\ [][SignalNext]_vars

(* ---------------------------------------------------------------------- *)
(* predict_up_probability on its own: a history of positive prices is      *)
(* drawn, then the method is applied to it.                                *)
(* ---------------------------------------------------------------------- *)
\* A price, the same price one percent up, and a price seventy times it.
PriceLevels == { 100, 101, 7000 }

Histories == UNION { [1..n -> PriceLevels] : n \in 0..MaxHistory }

ModelInit ==
    /\ NoRun
    /\ now = 0
    /\ risk = RiskManager(max_position_usd, daily_loss_limit_usd, cooldown_seconds, 0)
    /\ \E prices \in Histories :
          h = Some([op |-> "predict_up_probability", prices |-> prices, ret |-> << >>])

CallPredict ==
    /\ main = "harness"
    /\ h # None
    /\ Val(h).op = "predict_up_probability"
    /\ Val(h).ret = None
    /\ LET prices == Val(h).prices
           n == Len(prices)
           ret == IF n < MinHistory
                  THEN Ok(predict_up_probability(n, 0))
                  ELSE LET f == momentum_vol(prices)
                       IN  IF f.raised THEN f
                           ELSE Ok(predict_up_probability(n, f.value))
       IN  h' = Some([Val(h) EXCEPT !.ret = Some(ret)])
    /\ UNCHANGED << now, risk, runvars >>

ModelNext == CallPredict

ModelSpec == ModelInit /\ [][ModelNext]_vars

(* ---------------------------------------------------------------------- *)
(* The two feed tasks on their own.  Both run methods are wrapped in        *)
(* tenacity's retry(wait=wait_exponential(multiplier=1, min=1, max=30),    *)
(* stop=stop_after_attempt(999999)) (binance.py line 23, polymarket_ws.py  *)
(* line 59): an exception raised by the method is followed by a sleep and  *)
(* a new attempt, a normal return ends the retrying.  h holds for each feed *)
(* where its task is, the number of the attempt and the last delay slept.  *)
(* ---------------------------------------------------------------------- *)
BackoffMultiplier == 1
BackoffMin == 1
BackoffMax == 30
StopAfterAttempt == 999999

\* tenacity's wait_exponential: multiplier * 2^(attempt - 1), clamped.
wait_exponential(attempt_number) ==
    Max(Max(0, BackoffMin), Min(BackoffMultiplier * 2 ^ (attempt_number - 1), BackoffMax))

FeedNames == { "binance", "poly" }

FeedTask(pc, attempt, wait) == [pc |-> pc, attempt |-> attempt, wait |-> wait]

\* What the retry wrapper does with an exception raised by attempt number n.
retry_on_exception(task) ==
    IF task.attempt >= StopAfterAttempt
    THEN [task EXCEPT !.pc = "gave_up"]
    ELSE [task EXCEPT !.pc = "waiting", !.wait = wait_exponential(task.attempt)]

FeedInit ==
    /\ NoRun
    /\ now = 0
    /\ risk = RiskManager(max_position_usd, daily_loss_limit_usd, cooldown_seconds, 0)
    /\ h = Some([op |-> "feeds",
                 binance |-> FeedTask("connecting", 1, 0),
                 poly |-> FeedTask("connecting", 1, 0)])

\* websockets.connect succeeded (binance.py line 25, polymarket_ws.py 63-67).
FeedConnect(f) ==
    /\ main = "harness"
    /\ Val(h)[f].pc = "connecting"
    /\ h' = Some([Val(h) EXCEPT ![f].pc = "connected"])
    /\ UNCHANGED << now, risk, runvars >>

\* The connection attempt or the open connection fails with an exception
\* (transport error, close with an error code, a message that does not parse).
FeedFail(f) ==
    /\ main = "harness"
    /\ Val(h)[f].pc \in {"connecting", "connected"}
    /\ h' = Some([Val(h) EXCEPT ![f] = retry_on_exception(@)])
    /\ UNCHANGED << now, risk, runvars >>

\* The peer closes the connection normally.  BinanceFeed.run iterates with
\* "async for raw in ws" (line 26), which ends without an exception on a
\* normal close: run returns, and the retry wrapper is done.
\* PolymarketMarketFeed.run calls ws.recv() (line 74), which raises
\* ConnectionClosed on any close.
FeedPeerClose(f) ==
    /\ main = "harness"
    /\ Val(h)[f].pc = "connected"
    /\ h' = Some([Val(h) EXCEPT ![f] = IF f = "binance"
                                       THEN [@ EXCEPT !.pc = "returned"]
                                       ELSE retry_on_exception(@)])
    /\ UNCHANGED << now, risk, runvars >>

\* The delay is over: the next attempt starts.
FeedRetry(f) ==
    /\ main = "harness"
    /\ Val(h)[f].pc = "waiting"
    /\ Val(h)[f].attempt < MaxAttempt
    /\ h' = Some([Val(h) EXCEPT ![f].pc = "connecting", ![f].attempt = @ + 1])
    /\ UNCHANGED << now, risk, runvars >>

\* PolymarketMarketFeed.run sees a new _version (lines 71-72): it leaves the
\* connection and connects again at once, inside the same attempt.
FeedResubscribe ==
    /\ main = "harness"
    /\ Val(h).poly.pc = "connected"
    /\ h' = Some([Val(h) EXCEPT !.poly.pc = "connecting"])
    /\ UNCHANGED << now, risk, runvars >>

FeedNext ==
    \/ \E f \in FeedNames : FeedConnect(f)
    \/ \E f \in FeedNames : FeedFail(f)
    \/ \E f \in FeedNames : FeedPeerClose(f)
    \/ \E f \in FeedNames : FeedRetry(f)
    \/ FeedResubscribe

FeedSpec == FeedInit /\ [][FeedNext]_vars

(* ---------------------------------------------------------------------- *)
(* run_bot's shutdown in steps (runner.py lines 314-347), from a state the  *)
(* run can be in when max_runtime_seconds expires.  h holds the state of   *)
(* each of the four tasks: "pending" (suspended at an await), "done"       *)
(* (already finished: the loop crashed or the feed returned), "cancelling" *)
(* (cancel() called, CancelledError not yet delivered) or "cancelled".     *)
(* ---------------------------------------------------------------------- *)
TaskNames == { "binance_feed", "polymarket_feed", "rotation_loop", "decision_loop" }

\* decision_loop suspended at pc with a position held (open) or not.
DecAt(pc, open) ==
    IF pc = "sleep" THEN DecIdle
    ELSE [DecIdle EXCEPT
            !.pc = pc,
            !.up_quote = Some(MarketQuote("u1", 80, 84)),
            !.down_quote = Some(MarketQuote("d1", 120, 130)),
            !.decision = IF pc = "buy_placed" THEN "buy_up" ELSE "hold",
            !.can_open = ~open,
            !.reason = IF pc = "buy_placed" THEN "edge_up" ELSE "edge_too_low",
            !.risk_reason = IF open THEN "cooldown_active" ELSE "ok",
            !.buy = IF pc = "buy_placed"
                    THEN Some([token_id |-> "u1", limit_price |-> 84,
                               qty |-> Qty(order_size_usd, 84), status |-> "filled"])
                    ELSE None]

ShutdownInit ==
    /\ \E mode \in {"paper", "live"} :
          settings = [mode |-> mode, allow_cross_window_positions |-> FALSE]
    /\ now = 0
    /\ binance = [latest_price |-> Some(1)]
    /\ poly = [up_token_id |-> FirstHandle.up_token_id,
               down_token_id |-> FirstHandle.down_token_id,
               up_quote |-> Some(MarketQuote("u1", 80, 84)),
               down_quote |-> Some(MarketQuote("d1", 120, 130)), version |-> 0]
    /\ active_market = FirstHandle
    /\ last_valid_market = FirstHandle
    /\ last_market_ok = 0
    /\ main = "running"
    /\ tick = NoTick
    /\ \E open \in BOOLEAN :
          /\ position = IF open
                        THEN Some(Position("w1", "u1", Qty(order_size_usd, 84), 84, 0))
                        ELSE None
          /\ risk = IF open
                    THEN on_open(RiskManager(max_position_usd, daily_loss_limit_usd,
                                             cooldown_seconds, 0), order_size_usd, 0)
                    ELSE RiskManager(max_position_usd, daily_loss_limit_usd,
                                     cooldown_seconds, 0)
          /\ db = [open_positions |-> IF open THEN 1 ELSE 0]
          /\ \E dpc \in (IF open THEN {"sleep", "ticked", "crashed"}
                         ELSE {"sleep", "ticked", "buy_placed"}),
                rpc \in {"sleep", "crashed"},
                bst \in {"pending", "done"} :
                /\ dec = DecAt(dpc, open)
                /\ rot = [pc |-> rpc, log |-> ""]
                /\ h = Some([op |-> "shutdown",
                             tasks |-> [binance_feed |-> bst,
                                        polymarket_feed |-> "pending",
                                        rotation_loop |-> IF rpc = "crashed" THEN "done"
                                                          ELSE "pending",
                                        decision_loop |-> IF dpc = "crashed" THEN "done"
                                                          ELSE "pending"],
                             summary |-> FALSE])

\* Lines 316-324: the sleep of max_runtime_seconds is over; the finally
\* block calls cancel() on every task.  cancel() on a finished task does
\* nothing.
CancelTasks ==
    /\ main = "running"
    /\ main' = "cancelling"
    /\ h' = Some([Val(h) EXCEPT !.tasks =
                    [t \in TaskNames |-> IF @[t] = "pending" THEN "cancelling" ELSE @[t]]])
    /\ UNCHANGED << settings, now, binance, poly, active_market, last_valid_market,
                    last_market_ok, position, risk, rot, dec, db, tick >>

\* During the gather of line 325 a cancelled task gets CancelledError at the
\* await it is suspended in; no loop catches it, so the task ends there.
TaskCancelled(t) ==
    /\ main = "cancelling"
    /\ Val(h).tasks[t] = "cancelling"
    /\ h' = Some([Val(h) EXCEPT !.tasks[t] = "cancelled"])
    /\ rot' = IF t = "rotation_loop" THEN [rot EXCEPT !.pc = "cancelled"] ELSE rot
    /\ dec' = IF t = "decision_loop" THEN [dec EXCEPT !.pc = "cancelled"] ELSE dec
    /\ UNCHANGED << settings, now, binance, poly, active_market, last_valid_market,
                    last_market_ok, position, risk, main, db, tick >>

\* Gathered that does not wait for the tasks to end.
Gathered_without_waiting ==
    /\ main = "cancelling"
    /\ main' = "gathered"
    /\ UNCHANGED << settings, now, binance, poly, active_market, last_valid_market,
                    last_market_ok, position, risk, rot, dec, db, tick, h >>

\* Line 325: asyncio.gather(*tasks, return_exceptions=True) returns when
\* every task has ended.
Gathered ==
    /\ main = "cancelling"
    /\ \A t \in TaskNames : Val(h).tasks[t] \in {"done", "cancelled"}
    /\ main' = "gathered"
    /\ UNCHANGED << settings, now, binance, poly, active_market, last_valid_market,
                    last_market_ok, position, risk, rot, dec, db, tick, h >>

\* Lines 327-356: the session summary is logged and printed.
Summary ==
    /\ main = "gathered"
    /\ main' = "stopped"
    /\ h' = Some([Val(h) EXCEPT !.summary = TRUE])
    /\ UNCHANGED << settings, now, binance, poly, active_market, last_valid_market,
                    last_market_ok, position, risk, rot, dec, db, tick >>

ShutdownNext ==
    \/ CancelTasks
    \/ \E t \in TaskNames : TaskCancelled(t)
    \/ Gathered
    \/ Summary

ShutdownSpec == ShutdownInit /\ [][ShutdownNext]_vars

(* ---------------------------------------------------------------------- *)
(* run_bot's startup (runner.py lines 37-66 and 304-307), for every        *)
(* configuration and every outcome of the first discovery.  h holds the    *)
(* configuration, the position of run_bot in its startup and the error it  *)
(* raised, if any.  Once the tasks exist the feeds and the decision loop   *)
(* take their first steps.                                                 *)
(* ---------------------------------------------------------------------- *)
NoHandle == [market_slug |-> "", up_token_id |-> "", down_token_id |-> ""]

ManualHandle == [market_slug |-> "manual-config", up_token_id |-> "u1", down_token_id |-> "d1"]

\* What the network lets the first discovery do: find a handle, find
\* nothing, or fail with an exception.
DiscoveryOutcomes == { "found", "nothing", "raise" }

\* discover_btc_up_down_market (discovery.py lines 23-74): the configured
\* token ids win; otherwise the outcome of the requests.
discover_btc_up_down_market(manual, outcome) ==
    IF manual THEN [raised |-> FALSE, result |-> Some(ManualHandle)]
    ELSE IF outcome = "raise" THEN [raised |-> TRUE, result |-> None]
    ELSE IF outcome = "found" THEN [raised |-> FALSE, result |-> Some(FirstHandle)]
    ELSE [raised |-> FALSE, result |-> None]

\* Executor.__init__ and _build_client (execution.py lines 24-35): "" when
\* the executor is built, or the error raised.
build_executor(mode, importable, private_key) ==
    IF mode # "live" THEN ""
    ELSE IF ~importable THEN "py-clob-client not installed/importable"
    ELSE IF ~private_key THEN "POLY_PRIVATE_KEY required in live mode"
    ELSE ""

StartupInit ==
    /\ \E mode \in {"paper", "live"}, cross \in BOOLEAN :
          settings = [mode |-> mode, allow_cross_window_positions |-> cross]
    /\ now = 0
    /\ binance = [latest_price |-> None]
    /\ poly = [up_token_id |-> "", down_token_id |-> "",
               up_quote |-> None, down_quote |-> None, version |-> 0]
    /\ active_market = NoHandle
    /\ last_valid_market = NoHandle
    /\ last_market_ok = 0
    /\ position = None
    /\ risk = RiskManager(max_position_usd, daily_loss_limit_usd, cooldown_seconds, 0)
    /\ rot = [pc |-> "sleep", log |-> ""]
    /\ dec = DecIdle
    /\ main = "starting"
    /\ db = [open_positions |-> 0]
    /\ tick = NoTick
    /\ \E manual \in BOOLEAN, outcome \in DiscoveryOutcomes,
          importable \in BOOLEAN, private_key \in BOOLEAN :
          h = Some([op |-> "startup", pc |-> "discover", manual |-> manual,
                    outcome |-> outcome, importable |-> importable,
                    private_key |-> private_key, discovered |-> None,
                    tasks_created |-> FALSE, error |-> ""])

\* Lines 42-46: the first discovery; without a handle run_bot raises.
StartDiscover ==
    /\ main = "starting"
    /\ Val(h).pc = "discover"
    /\ LET d == discover_btc_up_down_market(Val(h).manual, Val(h).outcome)
       IN  IF d.raised
           THEN /\ main' = "failed"
                /\ h' = Some([Val(h) EXCEPT !.pc = "raised", !.error = "discovery raised"])
           ELSE IF d.result = None
           THEN /\ main' = "failed"
                /\ h' = Some([Val(h) EXCEPT !.pc = "raised",
                        !.error = "Market discovery failed and no fallback token IDs provided"])
           ELSE /\ main' = main
                /\ h' = Some([Val(h) EXCEPT !.pc = "construct", !.discovered = d.result])
    /\ UNCHANGED << settings, now, binance, poly, active_market, last_valid_market,
                    last_market_ok, position, risk, rot, dec, db, tick >>

\* StartExecutor that builds the live client only when the first order
\* needs it.
StartExecutor_lazy_client ==
    /\ main = "starting"
    /\ Val(h).pc = "construct"
    /\ h' = Some([Val(h) EXCEPT !.pc = "create_tasks"])
    /\ UNCHANGED << settings, now, binance, poly, active_market, last_valid_market,
                    last_market_ok, position, risk, rot, dec, main, db, tick >>

\* Lines 48-57: the feeds, the model and the risk manager are constructed,
\* then the Executor, which raises in live mode without client or key.
StartExecutor ==
    /\ main = "starting"
    /\ Val(h).pc = "construct"
    /\ LET err == build_executor(settings.mode, Val(h).importable, Val(h).private_key)
       IN  IF err # ""
           THEN /\ main' = "failed"
                /\ h' = Some([Val(h) EXCEPT !.pc = "raised", !.error = err])
           ELSE /\ main' = main
                /\ h' = Some([Val(h) EXCEPT !.pc = "create_tasks"])
    /\ UNCHANGED << settings, now, binance, poly, active_market, last_valid_market,
                    last_market_ok, position, risk, rot, dec, db, tick >>

\* Lines 59-66 and 304-307: the handle becomes the active one and the four
\* tasks are created.
StartTasks ==
    /\ main = "starting"
    /\ Val(h).pc = "create_tasks"
    /\ LET d == Val(Val(h).discovered)
       IN  /\ active_market' = d
           /\ last_valid_market' = d
           /\ last_market_ok' = now
           /\ poly' = [poly EXCEPT !.up_token_id = d.up_token_id,
                                   !.down_token_id = d.down_token_id]
    /\ main' = "running"
    /\ h' = Some([Val(h) EXCEPT !.pc = "running", !.tasks_created = TRUE])
    /\ UNCHANGED << settings, now, binance, position, risk, rot, dec, db, tick >>

StartupNext ==
    \/ StartDiscover
    \/ StartExecutor
    \/ StartTasks
    \/ \E price \in Prices : BinanceTrade(price)
    \/ \E tok \in Tokens, book \in Books : PolyMessage(tok, book)
    \/ TickNoOrderbook

StartupSpec == StartupInit /\ [][StartupNext]_vars

(* ---------------------------------------------------------------------- *)
(* The decision loop with its ticks table: one market, no rotation, and h  *)
(* holding the row the last tick inserted into ticks (runner.py lines      *)
(* 178-181), so that what a tick records can be compared with its signal.  *)
(* ---------------------------------------------------------------------- *)
RiskReasons == { "daily_loss_limit_hit", "max_exposure_hit", "cooldown_active" }

\* ticks_row that stores a tick the risk manager blocked as a plain hold
\* without an edge.
ticks_row_blocked_as_hold(signal, reason) ==
    IF reason \in RiskReasons
    THEN [op |-> "ticks", p_model |-> signal.p_up_model, decision |-> "hold",
          edge |-> 0, reason |-> reason]
    ELSE [op |-> "ticks", p_model |-> signal.p_up_model, decision |-> signal.decision,
          edge |-> signal.edge, reason |-> reason]

\* The values of the INSERT INTO ticks that come from the signal and the
\* reason (ts, the reference price and the two mids are left out).
ticks_row(signal, reason) ==
    [op |-> "ticks", p_model |-> signal.p_up_model, decision |-> signal.decision,
     edge |-> signal.edge, reason |-> reason]

\* The books of this specification: those of Books and a degenerate one,
\* no bid and an ask of half a cent.
TickBooks == Books \cup { << 0, 1 >> }

TickInit ==
    \E mode \in {"paper", "live"}, cross \in BOOLEAN :
        InitRun(FirstHandle, mode, cross)

\* TickStart, with the row it stores.
TickRecorded(nprices, x) ==
    /\ TickStartBody(nprices, x)
    /\ LET o == tick_signal(nprices, x)
       IN  h' = Some(ticks_row(o.signal, o.reason))

TickNext ==
    \/ \E price \in Prices : BinanceTrade(price)
    \/ \E tok \in {FirstHandle.up_token_id, FirstHandle.down_token_id}, book \in TickBooks :
          PolyMessage(tok, book)
    \/ Clock
    \/ TickNoOrderbook
    \/ \E nprices \in {1, MinHistory}, x \in PModelSet : TickRecorded(nprices, x)
    \/ ExitCheck
    \/ EntrySkip
    \/ EntrySubmit
    \/ EntrySettle

TickSpec == TickInit /\ [][TickNext]_vars

\* The decision loop keeps ticking and time passes: a tick that can start
\* starts, and every step of a started tick that can run runs (the awaits of
\* the loop body all return).
TickLive ==
    /\ TickSpec
    /\ WF_vars(Clock)
    /\ WF_vars(TickNoOrderbook)
    /\ WF_vars(\E nprices \in {1, MinHistory}, x \in PModelSet : TickRecorded(nprices, x))
    /\ WF_vars(ExitCheck)
    /\ WF_vars(EntrySkip)
    /\ WF_vars(EntrySubmit)
    /\ WF_vars(EntrySettle)

(* ---------------------------------------------------------------------- *)
(* The decision loop with its orders table: one market, and h holding what *)
(* the buy rows of orders (runner.py lines 253-267) amount to: how many    *)
(* there are, the created_ts of the latest and that of the one before it.  *)
(* h is None while the table has no buy row.                               *)
(* ---------------------------------------------------------------------- *)
buy_rows(rows, t) ==
    [op |-> "orders",
     buys |-> IF rows = None THEN 1 ELSE Val(rows).buys + 1,
     created_ts |-> t,
     previous_ts |-> IF rows = None THEN None ELSE Some(Val(rows).created_ts)]

\* EntrySubmit, with the row it inserts into orders.
EntrySubmitLogged ==
    /\ position = None
    /\ IF h = None THEN TRUE ELSE Val(h).buys < MaxOrders
    /\ EntrySubmitCore
    /\ h' = Some(buy_rows(h, now))

OrdersNext ==
    \/ \E price \in Prices : BinanceTrade(price)
    \/ \E tok \in {FirstHandle.up_token_id, FirstHandle.down_token_id}, book \in Books :
          PolyMessage(tok, book)
    \/ Clock
    \/ TickNoOrderbook
    \/ \E nprices \in {1, MinHistory}, x \in PModelSet : TickStart(nprices, x)
    \/ ExitCheck
    \/ EntrySkip
    \/ EntrySubmitLogged
    \/ EntrySettle

OrdersSpec == TickInit /\ [][OrdersNext]_vars

(* ---------------------------------------------------------------------- *)
(* The exposure bookkeeping of a round trip: the statements of the filled  *)
(* entry (runner.py lines 247-281) and of the filled exit (lines 221-235)  *)
(* that touch the RiskManager and the position, applied one after the      *)
(* other for any ask and bid.  h records the last of them.                 *)
(* ---------------------------------------------------------------------- *)
EntryAsks == { 0, 1, 84, 130 }
ExitBids == { 0, 80, 120 }

ExposureInit ==
    /\ NoRun
    /\ now = 0
    /\ risk = RiskManager(max_position_usd, daily_loss_limit_usd, cooldown_seconds, 0)
    /\ h = None

\* Lines 163, 247-249 and 273-281: the risk gate accepted the entry and the
\* buy at the ask was filled.
FilledEntry(ask) ==
    /\ main = "harness"
    /\ position = None
    /\ LET co == can_open(risk, order_size_usd, now)
           limit_price == ask
           qty == order_qty(limit_price)
       IN  /\ co.ret[1]
           /\ risk' = on_open(co.state, order_size_usd, now)
           /\ position' = Some(Position(active_market.market_slug,
                                        active_market.up_token_id, qty, limit_price, now))
           /\ h' = Some([op |-> "entry", price |-> limit_price,
                         notional_usd |-> order_size_usd])
    /\ UNCHANGED << settings, now, binance, poly, active_market, last_valid_market,
                    last_market_ok, rot, dec, main, db, tick >>

\* Lines 221-222 and 235: a sell at the bid was filled.
FilledExit(bid) ==
    /\ main = "harness"
    /\ position # None
    /\ LET pos == Val(position)
           pnl == ((bid - pos.entry_price) * pos.qty.num) \div (pos.qty.den * One)
           released == Notional(pos.entry_price, pos.qty)
       IN  /\ Abs(risk.realized_pnl_usd + pnl) <= MaxPnl
           /\ risk' = on_close(risk, released, pnl, now)
           /\ position' = None
           /\ h' = Some([op |-> "exit", price |-> pos.entry_price,
                         notional_usd |-> released])
    /\ UNCHANGED << settings, now, binance, poly, active_market, last_valid_market,
                    last_market_ok, rot, dec, main, db, tick >>

ExposureNext ==
    \/ \E ask \in EntryAsks : FilledEntry(ask)
    \/ \E bid \in ExitBids : FilledExit(bid)
    \/ Clock

ExposureSpec == ExposureInit /\ [][ExposureNext]_vars

(* ---------------------------------------------------------------------- *)
(* The decision loop under different exposure limits: one market, and      *)
(* MAX_POSITION_USD below, at and above the order size.                    *)
(* ---------------------------------------------------------------------- *)
MaxPositions == { 5, 10, 30 }

CapInit ==
    \E mode \in {"paper", "live"}, cross \in BOOLEAN, maxpos \in MaxPositions :
        InitRunWith(FirstHandle, mode, cross, maxpos)

CapNext ==
    \/ \E price \in Prices : BinanceTrade(price)
    \/ \E tok \in {FirstHandle.up_token_id, FirstHandle.down_token_id}, book \in Books :
          PolyMessage(tok, book)
    \/ Clock
    \/ TickNoOrderbook
    \/ \E nprices \in {1, MinHistory}, x \in PModelSet : TickStart(nprices, x)
    \/ ExitCheck
    \/ EntrySkip
    \/ EntrySubmit
    \/ EntrySettle

CapSpec == CapInit /\ [][CapNext]_vars

(* ---------------------------------------------------------------------- *)
(* PolymarketMarketFeed.run (polymarket_ws.py lines 59-88) against         *)
(* switch_market.  poly is the feed object; h holds the run task: where it *)
(* is suspended, its local version, the token ids of the subscription it   *)
(* sent on the open connection, and the attempt number of the retry        *)
(* wrapper.  Each action runs the task from one await to the next.         *)
(* ---------------------------------------------------------------------- *)
PolyTask(pc, version, subscribed, attempt, wait) ==
    [op |-> "poly_run", pc |-> pc, version |-> version, subscribed |-> subscribed,
     attempt |-> attempt, wait |-> wait]

\* Line 93: the asset ids of the subscription payloads.
subscription_payloads(f) == << f.up_token_id, f.down_token_id >>

SwitchInit ==
    /\ NoRun
    /\ now = 0
    /\ risk = RiskManager(max_position_usd, daily_loss_limit_usd, cooldown_seconds, 0)
    /\ h = Some(PolyTask("connecting", 0, None, 1, 0))

\* rotation_loop calls switch_market with the tokens of a handle that
\* differs from the active one (runner.py lines 76-81).
SwitchMarket(new_market) ==
    /\ main = "harness"
    /\ poly.version < MaxSwitch
    /\ handle_differs(new_market, active_market)
    /\ active_market' = new_market
    /\ last_valid_market' = new_market
    /\ poly' = switch_market(poly, new_market.up_token_id, new_market.down_token_id)
    /\ UNCHANGED << settings, now, binance, last_market_ok, position, risk, rot,
                    dec, main, db, tick, h >>

\* The test at the top of the inner loop (lines 71-72) for a task holding
\* the local version v: leave the connection, or wait for a message.
poly_loop_top_ignoring_version(v) == "recv"

poly_loop_top(v) == IF v # poly.version THEN "closing" ELSE "recv"

\* Lines 62-72: the connection is open; the payloads are built from the
\* feed's token ids as they are now and sent; the inner loop is entered.
PolyConnected ==
    /\ main = "harness"
    /\ Val(h).pc = "connecting"
    /\ h' = Some([Val(h) EXCEPT !.subscribed = Some(subscription_payloads(poly)),
                                !.pc = poly_loop_top(Val(h).version)])
    /\ UNCHANGED << now, risk, runvars >>

\* Lines 74-88 and 71-72: a message arrives, its quote is stored if it is
\* for one of the feed's tokens, and the loop is back at its top.
PolyRecvMessage(tok, book) ==
    /\ main = "harness"
    /\ Val(h).pc = "recv"
    /\ poly' = store_quote(poly, MarketQuote(tok, book[1], book[2]))
    /\ h' = Some([Val(h) EXCEPT !.pc = poly_loop_top(Val(h).version)])
    /\ UNCHANGED << settings, now, binance, active_market, last_valid_market,
                    last_market_ok, position, risk, rot, dec, main, db, tick >>

\* Lines 74-80 and 71-72: no message within the second; continue.
PolyRecvTimeout ==
    /\ main = "harness"
    /\ Val(h).pc = "recv"
    /\ h' = Some([Val(h) EXCEPT !.pc = poly_loop_top(Val(h).version)])
    /\ UNCHANGED << now, risk, runvars >>

\* The break of line 72 leaves the "async with" block, which closes the
\* connection; the outer loop reads the version anew (line 61) and connects.
PolyClosed ==
    /\ main = "harness"
    /\ Val(h).pc = "closing"
    /\ h' = Some([Val(h) EXCEPT !.pc = "connecting", !.version = poly.version,
                                !.subscribed = None])
    /\ UNCHANGED << now, risk, runvars >>

\* connect, send, recv, json.loads or the close raises: the retry wrapper
\* takes over (line 59).
PolyFail ==
    /\ main = "harness"
    /\ Val(h).pc \in {"connecting", "recv", "closing"}
    /\ Val(h).attempt < MaxAttempt
    /\ h' = Some([retry_on_exception(Val(h)) EXCEPT !.subscribed = None])
    /\ UNCHANGED << now, risk, runvars >>

\* The delay is over: run is called again from its first line.
PolyRetry ==
    /\ main = "harness"
    /\ Val(h).pc = "waiting"
    /\ h' = Some([Val(h) EXCEPT !.pc = "connecting", !.version = poly.version,
                                !.attempt = @ + 1])
    /\ UNCHANGED << now, risk, runvars >>

SwitchNext ==
    \/ \E new_market \in Handles : SwitchMarket(new_market)
    \/ PolyConnected
    \/ \E tok \in Tokens, book \in Books : PolyRecvMessage(tok, book)
    \/ PolyRecvTimeout
    \/ PolyClosed
    \/ PolyFail
    \/ PolyRetry

SwitchSpec == SwitchInit /\ [][SwitchNext]_vars

\* The event loop runs every task that is ready: the one-second timeout of
\* line 74, the close and the retry delay all end.  A connection attempt can
\* fail, but not every time for ever.
SwitchLive ==
    /\ SwitchSpec
    /\ WF_vars(PolyRecvTimeout)
    /\ WF_vars(PolyClosed)
    /\ WF_vars(PolyRetry)
    /\ SF_vars(PolyConnected)

(* ---------------------------------------------------------------------- *)
(* Properties                                                              *)
(* ---------------------------------------------------------------------- *)
Events(t) == { t.events[i] : i \in 1..Len(t.events) }
Sides(t) == { t.orders[i].side : i \in 1..Len(t.orders) }
Absent ==
    \/ binance.latest_price = None
    \/ poly.up_quote = None
    \/ poly.down_quote = None

\* C1: at most one Position is held (the slot is the one open row of the
\* positions table, and there is never a second open row), and a tick that
\* started with a Position open submits no buy order, whatever
\* allow_cross_window_positions is.
C1_OnePositionNoEntryWhileOpen ==
    /\ db.open_positions <= 1
    /\ (position = None) <=> (db.open_positions = 0)
    /\ tick.had_position => "buy" \notin Sides(tick)

\* A tick that began with the position open, cross-window entries enabled, a
\* buy decision and the risk gate open, has run its exit check and ended.
C1_Witness ==
    /\ settings.allow_cross_window_positions
    /\ tick.had_position
    /\ tick.decision \in {"buy_up", "buy_down"}
    /\ tick.can_open
    /\ tick.events = << "exit_eval" >>
    /\ dec.pc = "sleep"

\* C2: after any sequence of on_open and on_close calls with non-negative
\* notionals, exposure_usd is not negative.
C2_ExposureNonNegative == risk.exposure_usd >= 0

\* on_close has just been called with a notional larger than the exposure.
C2_Witness ==
    /\ h # None
    /\ Val(h).op = "on_close"
    /\ Val(h).notional_usd > Val(h).exposure_usd
    /\ Val(h).exposure_usd > 0
    /\ risk.exposure_usd = 0

\* C3: within one tick nothing of the entry (order, position) comes before
\* the exit evaluation, and no tick both closes a position and submits an
\* entry order or opens a position.
C3_ExitBeforeEntry ==
    /\ \A i, j \in 1..Len(tick.events) :
          (tick.events[i] \in {"buy", "open"} /\ tick.events[j] = "exit_eval") => j < i
    /\ ~ ("close" \in Events(tick) /\ Events(tick) \cap {"buy", "open"} # {})
    /\ "exit_eval" \in Events(tick) => tick.had_position

\* A tick evaluated the exit of its position, found no trigger, and ended
\* without an order.
C3_Witness ==
    /\ "exit_eval" \in Events(tick)
    /\ tick.exit_reason = ""
    /\ tick.orders = << >>
    /\ position # None
    /\ dec.pc = "sleep"

\* C4: the slot goes from EMPTY to OPEN only in a tick whose decision is not
\* hold, whose can_open returned true and whose one order is a buy reported
\* filled; that step applies on_open once.
C4_OpenOnlyOnFilledEntry ==
    [][ (position = None /\ position' # None) =>
          /\ tick.snapshots
          /\ tick.decision \in {"buy_up", "buy_down"}
          /\ tick.can_open
          /\ Len(tick.orders) = 1
          /\ tick.orders[1].side = "buy"
          /\ tick.orders[1].status = "filled"
          /\ tick' = [tick EXCEPT !.events = Append(@, "open")]
          /\ risk'.exposure_usd = risk.exposure_usd + order_size_usd
          /\ risk'.last_trade_ts = Some(now)
          /\ risk'.realized_pnl_usd = risk.realized_pnl_usd ]_vars

\* The position has just been opened by a filled buy.
C4_Witness ==
    /\ position # None
    /\ tick.events = << "buy", "open" >>
    /\ risk.exposure_usd = order_size_usd

\* C5: the slot goes from OPEN to EMPTY only in a tick in which profit_take
\* or time_stop fired and the sell order was reported filled; no other step
\* of any task empties it.
C5_CloseOnlyOnFilledExit ==
    [][ (position # None /\ position' = None) =>
          /\ dec.pc = "ticked"
          /\ tick'.exit_reason \in {"profit_take", "time_stop"}
          /\ Len(tick'.orders) = 1
          /\ tick'.orders[1].side = "sell"
          /\ tick'.orders[1].status = "filled" ]_vars

\* With the position open the market has been rotated, a no_orderbook tick
\* has run and run_bot has shut down: the position is still there.
C5_Witness ==
    /\ position # None
    /\ rot.log = "market_rotated"
    /\ tick.reason = "no_orderbook"
    /\ tick.had_position
    /\ main = "stopped"

\* C6 as stated: can_open returns (false, daily_loss_limit_hit) whenever it
\* is called with realized_pnl_usd <= -daily_loss_limit_usd.
C6_Original ==
    (h # None /\ Val(h).op = "can_open"
        /\ Val(h).realized_pnl_usd <= 0 - risk.daily_loss_limit_usd)
    => Val(h).ret = << FALSE, "daily_loss_limit_hit" >>

\* C6 amended: can_open returns (false, daily_loss_limit_hit) whenever it is
\* called with realized_pnl_usd <= -abs(daily_loss_limit_usd) and no more
\* than a day after day_start (so that the daily reset it starts with does
\* not fire), for every notional, exposure and cooldown state.
C6_DailyLossBlocks ==
    (h # None /\ Val(h).op = "can_open"
        /\ Val(h).realized_pnl_usd <= 0 - Abs(risk.daily_loss_limit_usd)
        /\ Val(h).t - Val(h).day_start <= DaySeconds)
    => Val(h).ret = << FALSE, "daily_loss_limit_hit" >>

\* can_open was called at the loss limit while the exposure check and the
\* cooldown would block too.
C6_Witness ==
    /\ h # None
    /\ Val(h).op = "can_open"
    /\ Val(h).realized_pnl_usd <= 0 - Abs(risk.daily_loss_limit_usd)
    /\ Val(h).t - Val(h).day_start <= DaySeconds
    /\ Val(h).exposure_usd + Val(h).notional_usd > risk.max_position_usd
    /\ Val(h).last_trade_ts = Some(Val(h).t)
    /\ Val(h).ret = << FALSE, "daily_loss_limit_hit" >>

\* C7: the active handle is never empty and is the last successfully
\* resolved handle, also after failed resolutions within or beyond the
\* fallback window.
C7_ActiveIsLastValid ==
    /\ active_market \in Handles
    /\ active_market = last_valid_market

\* After a rotation, a resolution has failed beyond the fallback window.
C7_Witness ==
    /\ rot.log = "market_discovery_failed_expired_fallback"
    /\ now - last_market_ok > market_discovery_fallback_seconds
    /\ poly.version > 0
    /\ active_market # FirstHandle

\* C8: a step that changes the state of a feed or of the rotation loop
\* leaves RiskState and the Position slot unchanged, and a step that changes
\* the state of the decision loop leaves active, last_valid and
\* last_valid_at unchanged.
C8_Ownership ==
    [][ /\ (binance' # binance \/ poly' # poly \/ rot' # rot
               \/ active_market' # active_market
               \/ last_valid_market' # last_valid_market
               \/ last_market_ok' # last_market_ok)
           => (risk' = risk /\ position' = position)
        /\ (dec' # dec \/ tick' # tick \/ risk' # risk \/ position' # position)
           => (active_market' = active_market
                 /\ last_valid_market' = last_valid_market
                 /\ last_market_ok' = last_market_ok) ]_vars

\* With a position open and exposure booked, the rotation loop has swapped
\* the market and the quote feed has stored a quote of the new market.
C8_Witness ==
    /\ position # None
    /\ risk.exposure_usd = order_size_usd
    /\ rot.log = "market_rotated"
    /\ poly.up_quote # None
    /\ Val(poly.up_quote).token_id = active_market.up_token_id
    /\ active_market # FirstHandle

\* C9: choose_signal holds with spread_too_wide whenever a spread exceeds
\* max_spread, whatever the edges; otherwise buy_up if edge_up >= edge_min,
\* else buy_down if edge_down >= edge_min, else hold with edge_too_low.
C9_SignalTiers ==
    (h # None /\ Val(h).op = "choose_signal" /\ Val(h).ret # None) =>
        LET a == Val(h)
            sig == Val(a.ret)
            wide == a.up_spread > a.max_spread \/ a.down_spread > a.max_spread
            eu == a.p_up_model - a.up_mid
            ed == (One - a.p_up_model) - (IF One - a.up_mid > 0 THEN One - a.up_mid ELSE 0)
            got == << sig.decision, sig.reason_code >>
        IN  /\ wide => got = << "hold", "spread_too_wide" >>
            /\ (~wide /\ eu >= a.edge_min) => got = << "buy_up", "edge_up" >>
            /\ (~wide /\ eu < a.edge_min /\ ed >= a.edge_min)
                  => got = << "buy_down", "edge_down" >>
            /\ (~wide /\ eu < a.edge_min /\ ed < a.edge_min)
                  => got = << "hold", "edge_too_low" >>
            /\ sig.edge_up = eu
            /\ sig.edge_down = ed

\* choose_signal was applied where both edges reach edge_min: the up tier won.
C9_Witness ==
    /\ h # None
    /\ Val(h).op = "choose_signal"
    /\ Val(h).ret # None
    /\ Val(h).p_up_model - Val(h).up_mid >= Val(h).edge_min
    /\ Val(Val(h).ret).edge_down >= Val(h).edge_min
    /\ Val(h).up_spread <= Val(h).max_spread
    /\ Val(h).down_spread <= Val(h).max_spread
    /\ Val(Val(h).ret).decision = "buy_up"

\* C10: a tick that finds a snapshot absent records hold / no_orderbook and
\* does nothing else: no risk query, no order, RiskState and the Position
\* slot unchanged.
C10_NoOrderbookTick ==
    [][ (dec.pc = "sleep" /\ Absent
            /\ << dec, tick, risk, position, db >>' # << dec, tick, risk, position, db >>)
        => /\ tick'.decision = "hold"
           /\ tick'.reason = "no_orderbook"
           /\ ~ tick'.risk_queried
           /\ tick'.orders = << >>
           /\ tick'.events = << >>
           /\ dec' = DecIdle
           /\ risk' = risk
           /\ position' = position
           /\ db' = db ]_vars

\* A no_orderbook tick has run with a position open, more than a day after
\* day_start: a risk query would have reset the day.
C10_Witness ==
    /\ tick.reason = "no_orderbook"
    /\ tick.decision = "hold"
    /\ tick.had_position
    /\ now - risk.day_start > DaySeconds
    /\ dec.pc = "sleep"

\* C11: every finished tick that had all snapshots present and a position
\* open has evaluated the exit triggers of that position, whatever the
\* active handle is.
C11_ExitEvaluatedWhileOpen ==
    (tick.snapshots /\ tick.had_position /\ dec.pc \in {"sleep", "crashed"})
        => "exit_eval" \in Events(tick)

\* C12: a successful resolution always updates last_valid and last_valid_at;
\* when the resolved handle differs from the active one, active is swapped
\* and the quote feed is switched (tokens replaced, both cached quotes
\* cleared) in the same step, so that no task ever sees the active handle and
\* the feed disagree; when nothing differs neither active nor the feed is
\* touched.
C12_AtomicSwap ==
    /\ [] /\ poly.up_token_id = active_market.up_token_id
          /\ poly.down_token_id = active_market.down_token_id
          /\ poly.up_quote # None
                => Val(poly.up_quote).token_id = active_market.up_token_id
          /\ poly.down_quote # None
                => Val(poly.down_quote).token_id = active_market.down_token_id
    /\ [][ /\ \A m \in Handles : RotSuccess(m) =>
                 /\ last_valid_market' = m
                 /\ last_market_ok' = now
                 /\ ~ handle_differs(m, active_market)
                       => (active_market' = active_market /\ poly' = poly)
                 /\ handle_differs(m, active_market) => active_market' = m
           /\ active_market' # active_market =>
                 /\ poly'.up_token_id = active_market'.up_token_id
                 /\ poly'.down_token_id = active_market'.down_token_id
                 /\ poly'.up_quote = None
                 /\ poly'.down_quote = None
                 /\ poly'.version = poly.version + 1
           /\ poly'.version # poly.version => active_market' # active_market ]_vars

\* A tick has run on cached quotes of the first market; the market has since
\* been swapped and the feed holds no quote.
C12_Witness ==
    /\ tick.snapshots
    /\ poly.version > 0
    /\ poly.up_quote = None
    /\ poly.down_quote = None
    /\ active_market # FirstHandle
    /\ poly.up_token_id = active_market.up_token_id

\* C13: a failed market resolution, reported by returning no handle or by
\* raising, is never fatal: while run_bot runs, the rotation loop is still
\* running (suspended in its sleep, about to resolve again).
C13_FailedResolutionNotFatal ==
    main = "running" => rot.pc = "sleep"

\* C14: whenever its connection ends, by a failure or by the peer closing
\* it, a feed task reconnects after a delay of at most 30 seconds: it is
\* never finished, neither by returning nor by giving up.
C14_FeedsReconnectForever ==
    (h # None /\ Val(h).op = "feeds") =>
        \A f \in FeedNames :
            /\ Val(h)[f].pc \in {"connecting", "connected", "waiting"}
            /\ Val(h)[f].wait <= BackoffMax

\* C15: on shutdown by max-runtime expiry the session summary is produced
\* only when each of the four tasks has ended (cancelled, or finished
\* before), and no step of the shutdown submits an order, changes the
\* Position slot or changes RiskState.
C15_ShutdownCancelsAndKeepsPosition ==
    /\ [] ((h # None /\ Val(h).op = "shutdown" /\ main \in {"gathered", "stopped"})
              => \A t \in TaskNames : Val(h).tasks[t] \in {"done", "cancelled"})
    /\ [] ((h # None /\ Val(h).op = "shutdown" /\ Val(h).summary) => main = "stopped")
    /\ [][ /\ position' = position
           /\ risk' = risk
           /\ db' = db
           /\ tick'.orders = tick.orders ]_vars

\* The summary has been produced after a shutdown that found a position open
\* and the decision loop in the middle of a tick: the position and its
\* exposure are still there.
C15_Witness ==
    /\ h # None
    /\ Val(h).op = "shutdown"
    /\ Val(h).summary
    /\ Val(h).tasks["decision_loop"] = "cancelled"
    /\ dec.decision = "hold"
    /\ position # None
    /\ risk.exposure_usd = order_size_usd

\* C16: when the first discovery yields no market and no token ids are
\* configured, or the mode is live and the client library or the private key
\* is missing, run_bot fails with no task created: no feed has stored
\* anything, no tick has run, no order exists.
C16_FatalStartup ==
    (h # None /\ Val(h).op = "startup") =>
        LET a == Val(h)
            no_market == ~a.manual /\ a.outcome # "found"
            no_client == settings.mode = "live" /\ (~a.importable \/ ~a.private_key)
        IN  /\ (no_market \/ no_client) =>
                  /\ ~a.tasks_created
                  /\ main \in {"starting", "failed"}
                  /\ tick = NoTick
                  /\ binance.latest_price = None
                  /\ poly.up_quote = None /\ poly.down_quote = None
                  /\ position = None
            /\ main = "failed" =>
                  /\ (no_market \/ no_client)
                  /\ ~a.tasks_created
                  /\ a.error # ""

\* A live-mode startup has found its market and then failed for want of the
\* private key.
C16_Witness ==
    /\ h # None
    /\ Val(h).op = "startup"
    /\ main = "failed"
    /\ settings.mode = "live"
    /\ Val(h).discovered # None
    /\ Val(h).importable
    /\ ~Val(h).private_key
    /\ Val(h).error = "POLY_PRIVATE_KEY required in live mode"

\* C17: for every price history shorter than max(momentum_window,
\* vol_window) + 2, predict_up_probability returns exactly 0.5 and raises
\* nothing; a constant history of sufficient length gives exactly 0.5 too.
C17_ShortOrConstantIsHalf ==
    (h # None /\ Val(h).op = "predict_up_probability" /\ Val(h).ret # None) =>
        LET prices == Val(h).prices
            n == Len(prices)
            r == Val(Val(h).ret)
            short == n < Max(momentum_window, vol_window) + 2
            constant == \A i, j \in 1..n : prices[i] = prices[j]
        IN  (short \/ constant) => (~ r.raised /\ r.value = One \div 2)

\* The method has returned 0.5 on a constant history of sufficient length.
C17_Witness ==
    /\ h # None
    /\ Val(h).op = "predict_up_probability"
    /\ Val(h).ret # None
    /\ Len(Val(h).prices) >= Max(momentum_window, vol_window) + 2
    /\ \A i \in 1..Len(Val(h).prices) : Val(h).prices[i] = 101
    /\ Val(Val(h).ret) = Ok(One \div 2)

\* C18: for every history of positive prices predict_up_probability returns
\* a value in the closed interval [0.01, 0.99].
C18_ProbabilityInRange ==
    (h # None /\ Val(h).op = "predict_up_probability" /\ Val(h).ret # None) =>
        LET r == Val(Val(h).ret)
        IN  /\ ~ r.raised
            /\ r.value >= Cent
            /\ r.value <= One - Cent

\* C19 as stated: every tick with all snapshots present, a position open and
\* cross-window entries disabled is recorded with decision hold and reason
\* position_open_old_window, whatever the underlying signal.
C19_Original ==
    (tick.snapshots /\ tick.had_position /\ ~ settings.allow_cross_window_positions)
        => (tick.decision = "hold" /\ tick.reason = "position_open_old_window")

\* C19 amended: such a tick is recorded with decision hold; its reason is
\* position_open_old_window when the underlying signal is buy_up or
\* buy_down, and the underlying signal's own reason (edge_too_low or
\* spread_too_wide) when that signal is hold.
C19_OverrideOfBuySignals ==
    [][ \A nprices \in {1, MinHistory}, x \in PModelSet :
          (dec'.pc = "ticked" /\ position # None
              /\ ~ settings.allow_cross_window_positions
              /\ TickStart(nprices, x))
          => LET up_quote == Val(poly.up_quote)
                 down_quote == Val(poly.down_quote)
                 underlying == choose_signal(predict_up_probability(nprices, x),
                                             Mid(up_quote), edge_min, max_spread,
                                             Spread(up_quote), Spread(down_quote))
             IN  /\ tick'.decision = "hold"
                 /\ tick'.reason = IF underlying.decision # "hold"
                                   THEN "position_open_old_window"
                                   ELSE underlying.reason_code ]_vars

\* A tick with a position open and cross-window entries disabled has been
\* recorded as position_open_old_window, with the risk gate closed as well.
C19_Witness ==
    /\ tick.snapshots
    /\ tick.had_position
    /\ ~ settings.allow_cross_window_positions
    /\ tick.decision = "hold"
    /\ tick.reason = "position_open_old_window"
    /\ ~ tick.can_open

\* C20: when an exit trigger has fired in a tick, a sell order has been
\* submitted for the position's token, and the decision loop lives on; when
\* that order is filled the position is closed in the same tick.
C20_ExitSubmitsSell ==
    tick.exit_reason # "" =>
        /\ dec.pc # "crashed"
        /\ Len(tick.orders) = 1
        /\ tick.orders[1].side = "sell"
        /\ tick.orders[1].status = "filled" => "close" \in Events(tick)

\* C21: a tick whose exit trigger fired and that left the position open (its
\* sell order was not filled) has submitted that sell order and recorded it,
\* and the decision loop lives on to evaluate the triggers on the next tick.
C21_UnfilledExitKeepsLoop ==
    (tick.exit_reason # "" /\ position # None) =>
        /\ dec.pc # "crashed"
        /\ Len(tick.orders) = 1
        /\ tick.orders[1].side = "sell"
        /\ tick.orders[1].status # "filled"

\* C22: an entry order that was accepted with a status other than filled
\* (open or submitted) creates no Position and leaves the RiskState as it
\* was, and the tick ends there: it has submitted that one order and submits
\* no other for the entry.
C22_UnfilledEntryNoPositionNoRetry ==
    /\ [](Len(tick.orders) <= 1)
    /\ [][ (dec.pc = "buy_placed" /\ ~ IsFilled(Val(dec.buy).status)) =>
              /\ position' = position
              /\ risk' = risk
              /\ tick' = tick
              /\ dec' \in {dec, DecIdle} ]_vars

\* In live mode a buy order came back as submitted and the tick has ended:
\* no position, no exposure, no trade timestamp.
C22_Witness ==
    /\ dec.pc = "sleep"
    /\ Len(tick.orders) = 1
    /\ tick.orders[1].side = "buy"
    /\ tick.orders[1].status = "submitted"
    /\ position = None
    /\ risk.exposure_usd = 0
    /\ risk.last_trade_ts = None

\* C23: in a tick that evaluates the exit of its position, the exit reason is
\* profit_take whenever the quote's mid has reached the target, also when the
\* time stop has been reached as well; it is time_stop exactly when the mid
\* is below the target and the time stop has been reached; and when neither
\* holds there is no exit reason and the tick submits no order.
C23_ExitReasonFirstMatch ==
    [][ (ExitCheck /\ exit_quote(Val(position), active_market,
                                 dec.up_quote, dec.down_quote) # None) =>
          LET pos == Val(position)
              quote == Val(exit_quote(pos, active_market, dec.up_quote, dec.down_quote))
              hit == Mid(quote) * 10000 >= pos.entry_price * (10000 + profit_take_bps)
              late == now - pos.entry_ts >= time_stop_seconds
          IN  /\ hit => tick'.exit_reason = "profit_take"
              /\ (tick'.exit_reason = "time_stop") <=> (~ hit /\ late)
              /\ (~ hit /\ ~ late) =>
                    (tick'.exit_reason = "" /\ tick'.orders = tick.orders) ]_vars

\* A tick that ran when the time stop of its position had been reached (the
\* risk day was reset by that tick, time_stop_seconds after the entry) has
\* profit_take as its exit reason.
C23_Witness ==
    /\ position # None
    /\ tick.had_position
    /\ tick.exit_reason = "profit_take"
    /\ risk.day_start - Val(position).entry_ts >= time_stop_seconds

\* C24: can_open returns the reason of the first blocking condition in the
\* order daily loss, exposure, cooldown (each evaluated on the state after
\* the daily reset): max_exposure_hit wins over cooldown_active when both
\* hold, cooldown_active is never returned while last_trade_ts is unset, and
\* (true, ok) is returned exactly when no condition blocks.
C24_CanOpenFixedOrder ==
    (h # None /\ Val(h).op = "can_open") =>
        LET c == Val(h)
            realized == IF c.t - c.day_start > DaySeconds THEN 0
                        ELSE c.realized_pnl_usd
            loss == realized <= 0 - Abs(risk.daily_loss_limit_usd)
            exposure == c.exposure_usd + c.notional_usd > risk.max_position_usd
            cooldown == /\ c.last_trade_ts # None
                        /\ c.t - Val(c.last_trade_ts) < risk.cooldown_seconds
        IN  /\ loss => c.ret = << FALSE, "daily_loss_limit_hit" >>
            /\ (~ loss /\ exposure) => c.ret = << FALSE, "max_exposure_hit" >>
            /\ (~ loss /\ ~ exposure /\ cooldown) => c.ret = << FALSE, "cooldown_active" >>
            /\ c.last_trade_ts = None => c.ret[2] # "cooldown_active"
            /\ (c.ret = << TRUE, "ok" >>) <=> ~ (loss \/ exposure \/ cooldown)

\* can_open was called inside the cooldown with the exposure limit exceeded
\* and the loss limit not reached, and returned max_exposure_hit.
C24_Witness ==
    /\ h # None
    /\ Val(h).op = "can_open"
    /\ Val(h).realized_pnl_usd > 0 - Abs(risk.daily_loss_limit_usd)
    /\ Val(h).exposure_usd + Val(h).notional_usd > risk.max_position_usd
    /\ Val(h).last_trade_ts = Some(Val(h).t)
    /\ Val(h).ret = << FALSE, "max_exposure_hit" >>

C26_OpenCloseEffects ==
    /\ [](h # None /\ Val(h).op = "on_close" =>
            /\ risk.exposure_usd = Max(Val(h).exposure_usd - Val(h).notional_usd, 0)
            /\ risk.realized_pnl_usd = Val(h).realized_pnl_usd + Val(h).pnl_usd
            /\ risk.last_trade_ts = Some(Val(h).t))
    /\ [](h # None /\ Val(h).op = "on_open" =>
            /\ risk.exposure_usd = Val(h).exposure_usd + Val(h).notional_usd
            /\ risk.realized_pnl_usd = Val(h).realized_pnl_usd
            /\ risk.last_trade_ts = Some(Val(h).t))
    /\ [][ \A n \in Notionals :
             (h # None /\ Val(h).op \in {"on_open", "on_close"} /\ CallCanOpen(n)) =>
               LET inside == now - Val(h).t < risk.cooldown_seconds
                   ret == Val(h').ret
               IN  /\ inside => (ret[1] = FALSE /\ ret[2] \in RiskReasons)
                   /\ (inside /\ ret[2] \notin {"daily_loss_limit_hit", "max_exposure_hit"})
                         => ret[2] = "cooldown_active"
                   /\ ~ inside => ret[2] # "cooldown_active" ]_vars

\* on_close has just been called, some time after the previous trade, with a
\* loss and a notional smaller than the exposure.
C26_Witness ==
    /\ h # None
    /\ Val(h).op = "on_close"
    /\ Val(h).pnl_usd < 0
    /\ Val(h).notional_usd > 0
    /\ Val(h).exposure_usd > Val(h).notional_usd
    /\ Val(h).last_trade_ts # None
    /\ Val(h).last_trade_ts # Some(Val(h).t)
    /\ risk.exposure_usd = Val(h).exposure_usd - Val(h).notional_usd
    /\ risk.last_trade_ts = Some(now)

C28_EntryOrderAndPosition ==
    /\ [][ EntrySubmit =>
             LET up == dec.decision = "buy_up"
                 ask == IF up THEN Val(dec.up_quote).ask ELSE Val(dec.down_quote).ask
                 order == tick'.orders[Len(tick'.orders)]
             IN  /\ dec.decision \in {"buy_up", "buy_down"}
                 /\ Len(tick'.orders) = Len(tick.orders) + 1
                 /\ order.side = "buy"
                 /\ order.token_id = IF up THEN active_market.up_token_id
                                     ELSE active_market.down_token_id
                 /\ order.price = ask
                 /\ order.size = [num |-> order_size_usd * One,
                                  den |-> IF ask >= Cent THEN ask ELSE Cent] ]_vars
    /\ [][ (position = None /\ position' # None) =>
             LET order == tick.orders[Len(tick.orders)]
             IN  /\ order.side = "buy"
                 /\ Val(position').token_id = order.token_id
                 /\ Val(position').qty = order.size
                 /\ Val(position').entry_price = order.price ]_vars

\* A buy_up entry at an ask below one cent was filled: the position holds
\* order_size_usd / 0.01 of the up token at that ask.
C28_Witness ==
    /\ position # None
    /\ Val(position).token_id = active_market.up_token_id
    /\ Val(position).entry_price < Cent
    /\ Val(position).qty = [num |-> order_size_usd * One, den |-> Cent]
    /\ "open" \in Events(tick)

\* C29: switch_market leaves the feed with the new token ids, both cached
\* quotes absent and a larger generation marker; the run task never ends;
\* and after every switch the task eventually waits for messages on a
\* connection it opened after that switch and on which it subscribed to the
\* token ids the feed has then.
C29_SwitchResubscribes ==
    /\ [][ \A new_market \in Handles :
             SwitchMarket(new_market) =>
               /\ poly'.up_token_id = new_market.up_token_id
               /\ poly'.down_token_id = new_market.down_token_id
               /\ poly'.up_quote = None
               /\ poly'.down_quote = None
               /\ poly'.version > poly.version ]_vars
    /\ [](Val(h).pc \in {"connecting", "recv", "closing", "waiting"})
    /\ \A v \in 1..MaxSwitch :
          (poly.version = v) ~>
              (/\ Val(h).pc = "recv"
               /\ Val(h).version >= v
               /\ Val(h).subscribed = Some(<< poly.up_token_id, poly.down_token_id >>))

\* The market was switched while the task was waiting for a message; the
\* task left that connection without an exception (still its first attempt)
\* and now waits on a new one, subscribed to the tokens of the second market.
C29_Witness ==
    /\ poly.version >= 1
    /\ poly.up_token_id = "u2"
    /\ Val(h).pc = "recv"
    /\ Val(h).attempt = 1
    /\ Val(h).version = poly.version
    /\ Val(h).subscribed = Some(<< "u2", "d2" >>)

\* C30: in paper mode, on one market and with the decision loop ticking, a
\* position that is open is eventually closed: the slot returns to EMPTY
\* (its time stop is reached when the clock has advanced by
\* time_stop_seconds, at the latest).
C30_PositionEventuallyClosed ==
    (settings.mode = "paper" /\ position # None) ~> (position = None)

\* C31: the token of a submitted entry order is the token of the snapshot
\* quote whose ask prices it, and the market_slug and token_id of a Position
\* are those of one market handle, also when the active market is swapped
\* while the tick is suspended.
C31_OrderAndPositionOfOneHandle ==
    /\ dec.pc = "buy_placed" =>
          LET quote == IF dec.decision = "buy_up" THEN Val(dec.up_quote)
                       ELSE Val(dec.down_quote)
          IN  Val(dec.buy).token_id = quote.token_id
    /\ position # None =>
          \E d \in Handles :
              /\ Val(position).market_slug = d.market_slug
              /\ Val(position).token_id \in {d.up_token_id, d.down_token_id}

\* C32: any two consecutive entry (buy) orders are submitted at least
\* cooldown_seconds apart, and the notional of the entry orders submitted
\* (none of which has been closed) is at most max_position_usd, in paper
\* mode and in live mode.
C32_EntryOrdersSpacedAndCapped ==
    h # None =>
        /\ Val(h).previous_ts # None =>
              Val(h).created_ts - Val(Val(h).previous_ts) >= cooldown_seconds
        /\ Val(h).buys * order_size_usd <= max_position_usd

C34_ExposureWithinLimit ==
    /\ [](risk.exposure_usd <= risk.max_position_usd)
    /\ [][ risk'.exposure_usd > risk.exposure_usd =>
             /\ dec.pc = "buy_placed"
             /\ dec.can_open
             /\ tick.can_open
             /\ risk'.exposure_usd = risk.exposure_usd + order_size_usd
             /\ risk.exposure_usd + order_size_usd <= risk.max_position_usd ]_vars
    /\ [][ (dec.pc \in {"ticked", "buy_placed"} /\ dec'.pc = dec.pc) =>
             risk' = risk ]_vars

\* With the limit equal to the order size, an entry was accepted and filled:
\* the exposure is at the limit.
C34_Witness ==
    /\ risk.max_position_usd = order_size_usd
    /\ risk.exposure_usd = risk.max_position_usd
    /\ position # None
    /\ "open" \in Events(tick)
    /\ tick.can_open

\* C35: a cached up quote (down quote) of the quote feed is absent or
\* carries the feed's current up (down) token id, and a message for a token
\* that is not one of the feed's current two, such as one of the previous
\* market arriving after switch_market, leaves the feed as it is.
C35_CachedQuotesOfCurrentTokens ==
    /\ [] /\ poly.up_quote # None => Val(poly.up_quote).token_id = poly.up_token_id
          /\ poly.down_quote # None
                => Val(poly.down_quote).token_id = poly.down_token_id
    /\ [][ \A tok \in Tokens, book \in Books :
             (tok \notin {poly.up_token_id, poly.down_token_id}
                /\ PolyRecvMessage(tok, book)) => poly' = poly ]_vars

\* The market was switched while the task waited on the connection that is
\* subscribed to the previous market's tokens; the wait has ended, the task
\* is about to leave that connection, and no quote is cached.
C35_Witness ==
    /\ poly.version > 0
    /\ Val(h).pc = "closing"
    /\ Val(h).version < poly.version
    /\ Val(h).subscribed # None
    /\ Val(h).subscribed # Some(subscription_payloads(poly))
    /\ poly.up_quote = None
    /\ poly.down_quote = None

====
